---------------------------- MODULE Spec2Model ----------------------------
(***************************************************************************)
(* Base indexer: the forward-only poller (startPoller), the reorg check    *)
(* and rewind (handleReorg), the per-block write path (processBlock) and   *)
(* the store statements they run, against a remote chain that grows and    *)
(* reorganises.  Every store statement is a step of its own: the code runs *)
(* each prepared statement in autocommit mode, so the process can fail or  *)
(* be killed between any two of them.                                      *)
(***************************************************************************)
EXTENDS Integers, Sequences, FiniteSets, Bags, TLC

(* ------------------------------ bounds -------------------------------- *)
\* highest block number the remote chain reaches
MaxHead == 4
\* number of forks the remote chain goes through (fork 1 is the first)
MaxFork == 2
\* injected failures (exceptions and process kills) per behaviour
MaxFailures == 1

(* ------------------------- configuration (cfg) ------------------------ *)
\* cfg.SAFETY_BUFFER_BLOCKS and cfg.REORG_REWIND_DEPTH are read from the
\* environment; the values here are scaled to the bounded chain.
SAFETY_BUFFER_BLOCKS == 1
REORG_REWIND_DEPTH == 2
\* cfg.CONCURRENCY_LIMIT, scaled to blocks of at most two transactions
CONCURRENCY_LIMIT == 1

\* null / undefined of the poller's locals
Null == -99

(* ------------------------- the remote chain --------------------------- *)
VARIABLES
  chain         \* remote canonical chain: block number -> fork that mined it

\* getLatestBlockNumber(): eth_blockNumber
getLatestBlockNumber == Cardinality(DOMAIN chain) - 1

\* a block hash as the remote spells it in a block's hash field: one value
\* per (number, fork), hex digits in lower case
Hash(n, k) == <<n, k, "lower">>

\* the same hash spelled with upper-case hex digits
UpperCase(h) == <<h[1], h[2], "upper">>

\* the zero hash, parent of block 0
ZeroHash == <<0, 0, "lower">>

\* the transactions of the block mined by fork k at number n.  Blocks of the
\* first fork carry one transaction (a call), later forks add a plain
\* value transfer.
TxsOf(n, k) ==
  LET call == [hash |-> <<n, k, 1>>, to |-> "0xc", value |-> 0, input |-> "0xa9"]
      pay  == [hash |-> <<n, k, 2>>, to |-> "0xd", value |-> 5, input |-> "0x"]
  IN IF k = 1 THEN <<call>> ELSE <<call, pay>>

\* the logs of a transaction's receipt: the call emits a Transfer log and, on
\* later forks, an Approval log as well; the value transfer emits none
LogsOf(tx) ==
  IF tx.input = "0x" THEN <<>>
  ELSE IF tx.hash[2] = 1
    THEN << [logIndex |-> 0, address |-> "0xc", topic0 |-> "Transfer"] >>
    ELSE << [logIndex |-> 0, address |-> "0xc", topic0 |-> "Transfer"],
            [logIndex |-> 1, address |-> "0xc", topic0 |-> "Approval"] >>

\* eth_getBlockByNumber(n, true) on the current chain.  Nothing makes the
\* remote spell the two hash fields alike: it spells parentHash in upper case.
RemoteBlock(n) ==
  [number     |-> n,
   hash       |-> Hash(n, chain[n]),
   parentHash |-> UpperCase(IF n = 0 THEN ZeroHash ELSE Hash(n - 1, chain[n - 1])),
   transactions |-> TxsOf(n, chain[n])]

\* eth_getTransactionReceipt(hash): found only while the transaction's block
\* is canonical
ReceiptFound(tx) ==
  LET n == tx.hash[1] IN n \in DOMAIN chain /\ chain[n] = tx.hash[2]

RemoteReceipt(tx) == [transactionHash |-> tx.hash, logs |-> LogsOf(tx)]

(* ------------------------------ the store ----------------------------- *)
VARIABLES
  blocks,        \* set of rows [number, hash, parentHash, reorged]
  transactions,  \* set of rows [hash, blockNumber]
  receipts,      \* set of rows [txHash, blockNumber, logCount]
  logs,          \* bag of rows [txHash, blockNumber, logIndex] (surrogate id dropped)
  block_metrics, \* set of rows [blockNumber, txCount, logCount]
  event_counts,  \* set of rows [blockNumber, eventType, count]
  enriched,      \* token_transfers, nft_transfers, dex_swaps, contract_deployments
  checkpoint     \* the single-row checkpoint table: {} or {[id, lastBlock]}

store == <<blocks, transactions, receipts, logs, block_metrics, event_counts,
           enriched, checkpoint>>

\* INSERT OR REPLACE INTO blocks (..., reorged) VALUES (..., 0)
insertBlock(b) ==
  {r \in blocks : r.number # b.number} \cup
  {[number |-> b.number, hash |-> b.hash, parentHash |-> b.parentHash, reorged |-> 0]}

\* INSERT OR IGNORE INTO transactions, keyed by hash
insertTx(tx, n) ==
  IF \E r \in transactions : r.hash = tx.hash THEN transactions
  ELSE transactions \cup {[hash |-> tx.hash, blockNumber |-> n]}

\* INSERT OR IGNORE INTO receipts, keyed by txHash
insertReceipt(rc, n) ==
  IF \E r \in receipts : r.txHash = rc.transactionHash THEN receipts
  ELSE receipts \cup {[txHash |-> rc.transactionHash, blockNumber |-> n,
                       logCount |-> Len(rc.logs)]}

\* INSERT INTO logs: a new row with a fresh surrogate id every time
insertLog(rc, lg, n) ==
  logs (+) SetToBag({[txHash |-> rc.transactionHash, blockNumber |-> n,
                      logIndex |-> lg.logIndex]})

\* INSERT OR REPLACE INTO block_metrics, keyed by blockNumber
insertBlockMetrics(n, m) ==
  {r \in block_metrics : r.blockNumber # n} \cup
  {[blockNumber |-> n, txCount |-> m.txCount, logCount |-> m.logCount]}

\* INSERT OR REPLACE INTO event_counts, keyed by (blockNumber, eventType)
insertEventCount(n, kind, count) ==
  {r \in event_counts : ~(r.blockNumber = n /\ r.eventType = kind)} \cup
  {[blockNumber |-> n, eventType |-> kind, count |-> count]}

\* the affected blocks are deleted instead of flagged
markReorgedDeletes(from) == {r \in blocks : r.number < from}

\* UPDATE blocks SET reorged = 1 WHERE number >= ?
markReorged(from) ==
  {IF r.number >= from THEN [r EXCEPT !.reorged = 1] ELSE r : r \in blocks}

\* SELECT hash, parentHash FROM blocks WHERE number = ? AND reorged = 0
getBlockByNumber(n) == {r \in blocks : r.number = n /\ r.reorged = 0}

\* DELETE ... WHERE blockNumber > rewindNum: the rewind target's rows stay
DeleteAbove(table, rewindNum) == {r \in table : r.blockNumber <= rewindNum}

\* DELETE FROM <table> WHERE blockNumber >= rewindNum
DeleteFrom(table, rewindNum) == {r \in table : r.blockNumber < rewindNum}

\* the same DELETE on the logs table
DeleteLogsFrom(rewindNum) ==
  LET keep == {r \in BagToSet(logs) : r.blockNumber < rewindNum}
  IN [r \in keep |-> logs[r]]

\* getLastProcessedBlock(): the row's lastBlock, or null
getLastProcessedBlock ==
  IF checkpoint = {} THEN Null ELSE (CHOOSE r \in checkpoint : TRUE).lastBlock

\* setLastProcessedBlock(n): INSERT OR REPLACE INTO checkpoint (id, lastBlock) VALUES (1, ?)
setLastProcessedBlock(n) == {[id |-> 1, lastBlock |-> n]}

(* --------------------------- classification --------------------------- *)
\* classifyTx with its first two tests in the other order
classifyTxValueFirst(tx) ==
  IF tx.value > 0 /\ tx.input = "0x" THEN "eth_transfer"
  ELSE IF tx.to = "null" THEN "contract_creation"
  ELSE "contract_call"

\* classifyTx
classifyTx(tx) ==
  IF tx.to = "null" THEN "contract_creation"
  ELSE IF tx.value > 0 /\ tx.input = "0x" THEN "eth_transfer"
  ELSE "contract_call"

\* classifyLog as computeBlockMetrics calls it (topic0 only): a Transfer
\* topic is counted, every other log is not
classifyLog(topic0) == IF topic0 = "Transfer" THEN "transfer_event" ELSE "null"

\* the keys of computeBlockMetrics' eventCounts, in insertion order
EventKinds == <<"eth_transfer", "contract_creation", "transfer_event", "contract_call">>

RECURSIVE AllLogs(_)
\* allLogs: the logs of all receipts, in receipt order
AllLogs(rcs) ==
  IF rcs = <<>> THEN <<>> ELSE Head(rcs).logs \o AllLogs(Tail(rcs))

\* computeBlockMetrics(txData, allLogs): txData has one entry per receipt
computeBlockMetrics(txs, allLogs) ==
  LET TxKind(k)  == Cardinality({x \in DOMAIN txs : classifyTx(txs[x]) = k})
      LogKind(k) == Cardinality({x \in DOMAIN allLogs : classifyLog(allLogs[x].topic0) = k})
  IN [txCount  |-> Len(txs),
      logCount |-> Len(allLogs),
      eventCounts |-> [k \in {EventKinds[i] : i \in DOMAIN EventKinds} |->
                         TxKind(k) + LogKind(k)]]

(* ------------------------------ the poller ---------------------------- *)
VARIABLES
  pc,            \* where the ingest process is
  lastProcessed, \* startPoller's lastProcessed
  latestHead,    \* the head fetched in this iteration
  nextBlock,     \* nextBlock of this iteration (currentBlock / blockNumber)
  prevHash,      \* handleReorg's prevRow.hash
  rewindTo,      \* handleReorg's rewindTo
  blk,           \* processBlock's block
  rcpts,         \* processBlock's receipts
  i,             \* index of the loop in progress
  j,             \* index of the inner log loop
  err,           \* the caught exception: the step that raised it
  failures,      \* injected failures so far
  pendingRewind, \* observer: target of a completed rewind not yet followed by a block fetch
  latest,        \* the head fetched by the first run (startPoller's latest)
  retryOf,       \* observer: the block number of the attempt that raised last
  queue,         \* the limiter's queue: receipt fetches issued and not started
  active,        \* receipt fetches started and not settled
  got,           \* indices of the current fetchReceipts call whose receipt arrived
  batchLatch,    \* TRUE while the block processor still prefers blockReceipts
  batchSupported, \* whether the remote node implements eth_getBlockReceipts
  cls,           \* the last call of the classifier: its arguments and what it returned
  reorgBlock,    \* handleReorg's block: the remote block whose parentHash it compared
  lastCall       \* the function applied last: its name, its arguments and what it returned

(* the pool registry's module state, the durable pool cache, and the RPC calls
   the registry has in flight *)
VARIABLES
  poolCache,      \* the in-memory Map poolCache: lower-case pool address -> DEX name
  cacheLoaded,    \* the flag cacheLoaded
  pool_dex_cache, \* the rows of the durable table pool_dex_cache
  pendingLookups, \* the keys of the Map pendingLookups
  probes,         \* factory() calls sent and not answered: a bag of [addr, topic0]
  settling,       \* addresses whose lookup promise settled and whose finally() has not run
  lookup,         \* the last call of getDexName: its arguments and what it returned
  resolved,       \* observer: the known DEX name a probe resolved for an address
  probed          \* observer: addresses whose factory() call completed in this process

resolver == <<poolCache, cacheLoaded, pool_dex_cache, pendingLookups, probes, settling,
              lookup, resolved, probed>>

fetchState == <<queue, active, got>>
batch == <<batchLatch, batchSupported>>
locals == <<lastProcessed, latestHead, nextBlock, prevHash, rewindTo, blk, rcpts, i, j, err>>
vars == <<chain, store, pc, locals, failures, pendingRewind, latest, retryOf, fetchState, batch,
          cls, resolver, reorgBlock, lastCall>>

\* no hash: prevRow not read yet, block not fetched yet
NoHash == <<>>

NoBlock == [number |-> Null, hash |-> NoHash, parentHash |-> NoHash, transactions |-> <<>>]

\* a comparison that leaves the spelling of the hex digits as it is
toLowerCaseKeepsCase(h) == h

\* string.toLowerCase() on a hash
toLowerCase(h) == <<h[1], h[2], "lower">>

(* --------------- the classifier of parsing/classifier.ts -------------- *)
\* the keys of SIGNATURES
SignatureKeys ==
  {"TRANSFER", "APPROVAL", "APPROVAL_FOR_ALL", "TRANSFER_SINGLE", "TRANSFER_BATCH",
     "SWAP_V2", "SYNC", "MINT_V2", "BURN_V2", "SWAP_V3", "MINT_V3", "BURN_V3",
     "COLLECT_V3", "FLASH_V3", "INCREASE_LIQUIDITY", "DECREASE_LIQUIDITY", "SWAP_AERO",
     "DEPOSIT", "WITHDRAWAL", "USER_OPERATION_EVENT", "ACCOUNT_DEPLOYED",
     "USER_OP_REVERT_REASON", "SUPPLY", "WITHDRAW", "BORROW", "REPAY",
     "LIQUIDATION_CALL", "FLASH_LOAN", "RESERVE_DATA_UPDATED", "ORDER_FULFILLED",
     "ORDERS_MATCHED", "SENT_MESSAGE", "RELAYED_MESSAGE", "DEPOSIT_FINALIZED",
     "WITHDRAWAL_INITIATED", "PROPOSAL_CREATED", "VOTE_CAST", "PROPOSAL_EXECUTED",
     "STAKED", "WITHDRAWN", "REWARD_PAID", "REWARDS_CLAIMED", "CLAIM", "FEE_COLLECTED",
     "PRICE_FEED_UPDATE", "SAFE_SETUP", "EXECUTION_SUCCESS", "EXECUTION_FAILURE",
     "ADDED_OWNER", "REMOVED_OWNER", "REGISTER", "OWNERSHIP_TRANSFERRED", "UPGRADED",
     "INITIALIZED", "PAUSED", "UNPAUSED"}

\* SIGNATURES[key] = keccak256(toBytes(<the signature of key>)): the keys'
\* signatures are pairwise different strings, so are their hashes; keccak256
\* returns lower-case hex
SIGNATURES(key) == <<"keccak256", key, "lower">>

\* the tests of classifyLog in the order of the code: the key whose hash sig
\* is compared with, and the kind returned on a match (for TRANSFER the kind
\* returned when the inner topicCount test fails)
LogRules ==
  <<<<"DEPOSIT", "weth_wrap">>, <<"WITHDRAWAL", "weth_unwrap">>,
     <<"SWAP_V2", "dex_swap_v2">>, <<"SWAP_V3", "dex_swap_v3">>,
     <<"SWAP_AERO", "dex_swap_aero">>, <<"SYNC", "pool_sync">>,
     <<"MINT_V2", "liquidity_add">>, <<"MINT_V3", "liquidity_add">>,
     <<"INCREASE_LIQUIDITY", "liquidity_add">>, <<"BURN_V2", "liquidity_remove">>,
     <<"BURN_V3", "liquidity_remove">>, <<"DECREASE_LIQUIDITY", "liquidity_remove">>,
     <<"COLLECT_V3", "liquidity_collect">>, <<"FEE_COLLECTED", "liquidity_collect">>,
     <<"USER_OPERATION_EVENT", "user_operation">>,
     <<"USER_OP_REVERT_REASON", "user_operation">>,
     <<"ACCOUNT_DEPLOYED", "account_deployed">>, <<"SUPPLY", "lending_supply">>,
     <<"WITHDRAW", "lending_withdraw">>, <<"BORROW", "lending_borrow">>,
     <<"REPAY", "lending_repay">>, <<"LIQUIDATION_CALL", "lending_liquidation">>,
     <<"FLASH_LOAN", "flash_loan">>, <<"FLASH_V3", "flash_loan">>,
     <<"SENT_MESSAGE", "bridge_send">>, <<"WITHDRAWAL_INITIATED", "bridge_send">>,
     <<"RELAYED_MESSAGE", "bridge_receive">>,
     <<"DEPOSIT_FINALIZED", "bridge_receive">>, <<"STAKED", "staking">>,
     <<"REWARD_PAID", "reward_claim">>, <<"REWARDS_CLAIMED", "reward_claim">>,
     <<"CLAIM", "reward_claim">>, <<"PROPOSAL_CREATED", "governance">>,
     <<"VOTE_CAST", "governance">>, <<"PROPOSAL_EXECUTED", "governance">>,
     <<"PRICE_FEED_UPDATE", "oracle_update">>,
     <<"RESERVE_DATA_UPDATED", "oracle_update">>,
     <<"EXECUTION_SUCCESS", "multisig_exec">>,
     <<"EXECUTION_FAILURE", "multisig_exec">>, <<"SAFE_SETUP", "multisig_exec">>,
     <<"OWNERSHIP_TRANSFERRED", "ownership_change">>,
     <<"ADDED_OWNER", "ownership_change">>, <<"REMOVED_OWNER", "ownership_change">>,
     <<"UPGRADED", "contract_upgrade">>, <<"TRANSFER_SINGLE", "erc1155_transfer">>,
     <<"TRANSFER_BATCH", "erc1155_transfer">>, <<"TRANSFER", "erc20_transfer">>,
     <<"APPROVAL", "approval">>, <<"APPROVAL_FOR_ALL", "approval">>>>

\* log.topics[0] of a log without topics (undefined)
NoTopic == <<>>

\* classifyLog(topic0, topicCount) of parsing/classifier.ts: the first test
\* that matches the lower-cased topic0 decides; a Transfer is an ERC-721
\* transfer when topicCount === 4 and an ERC-20 transfer otherwise; a topic0
\* no test matches, or a missing one, is 'other'.  A missing topicCount
\* (Null) equals no number.
classifier_classifyLog(topic0, topicCount) ==
  IF topic0 = NoTopic THEN "other"
  ELSE
    LET sig  == toLowerCase(topic0)
        hits == {r \in DOMAIN LogRules : sig = toLowerCase(SIGNATURES(LogRules[r][1]))}
    IN IF hits = {} THEN "other"
       ELSE LET r == CHOOSE x \in hits : \A y \in hits : x <= y
            IN IF LogRules[r][1] = "TRANSFER" /\ topicCount = 4
                 THEN "erc721_transfer"
                 ELSE LogRules[r][2]

\* no call of the classifier yet
NoCall == [op |-> "none", topic0 |-> NoTopic, topicCount |-> Null,
           to |-> "null", value |-> 0, input |-> "0x", out |-> "none"]

\* no function applied yet
NoArgs == [op |-> "none", args |-> <<>>, out |-> <<>>]

\* a rewind one block deeper than configured
RewindTargetTooDeep(currentBlock) == currentBlock - REORG_REWIND_DEPTH - 1

\* rewindTo = currentBlock - BigInt(cfg.REORG_REWIND_DEPTH)
RewindTarget(currentBlock) == currentBlock - REORG_REWIND_DEPTH

\* the poller resumes at processFrom + 1, skipping the rewind target
ResumeAfterSkipsTarget(processFrom) == processFrom

\* lastProcessed = processFrom - 1n
ResumeAfter(processFrom) == processFrom - 1

\* the poller's test for "nothing to process yet": nextBlock > latestHead
NothingToProcess(next, head) == next > head

\* the cold-start value of lastProcessed
ColdStartFrom(head) == head - SAFETY_BUFFER_BLOCKS

\* txData: one entry per receipt, with the fields of the transaction at the same index
TxData(rcs, txs) ==
  [k \in DOMAIN rcs |->
     [hash  |-> rcs[k].transactionHash,
      to    |-> IF k \in DOMAIN txs THEN txs[k].to ELSE "null",
      value |-> IF k \in DOMAIN txs THEN txs[k].value ELSE 0,
      input |-> IF k \in DOMAIN txs THEN txs[k].input ELSE "0x"]]

\* a sequence without its element at index x
Remove(s, x) == SubSeq(s, 1, x - 1) \o SubSeq(s, x + 1, Len(s))

\* the receipt fetch of transaction k of the block, as handed to the limiter
Task(txs, k) == [tx |-> txs[k], k |-> k, orphan |-> FALSE]

\* every queued fetch is started at once, whatever is already running
PumpNoLimit(q, a) == << <<>>, a \o q >>

\* limit = pLimit(cfg.CONCURRENCY_LIMIT): queued fetches are started, oldest
\* first, while fewer than CONCURRENCY_LIMIT are running; gives <<queue, active>>
Pump(q, a) ==
  LET free == CONCURRENCY_LIMIT - Len(a)
      n == IF free <= 0 THEN 0 ELSE IF Len(q) < free THEN Len(q) ELSE free
  IN << SubSeq(q, n + 1, Len(q)), a \o SubSeq(q, 1, n) >>

\* Promise.all has rejected: the fetches of that call still queued or running
\* go on, and nobody waits for them any more
Abandon(s) == [x \in DOMAIN s |-> [s[x] EXCEPT !.orphan = TRUE]]

\* the steps inside the poller's try block where a synchronous statement or a
\* single RPC call can raise
TryPcs == {"loop", "reorgFetch", "markReorged", "delLogs", "delReceipts", "delTxs",
           "delMetrics", "delEvents", "rewindCp", "procFetch", "insBlock", "insTx",
           "insReceipt", "insLog", "insMetrics", "insEvent", "setCp"}

\* the steps of handleReorg's rewind
RewindPcs == {"markReorged", "delLogs", "delReceipts", "delTxs", "delMetrics",
              "delEvents", "rewindCp"}

\* the steps of processBlock
ProcessPcs == {"procFetch", "insBlock", "insTx", "fetchReceipts", "blockReceipts",
               "awaitReceipts", "insReceipt",
               "insLog", "insMetrics", "insEvent", "setCp"}

\* no call of getDexName yet
NoLookup == [tick |-> 0, pool |-> <<>>, topic0 |-> <<>>, hit |-> FALSE, out |-> "none"]

InitPoller ==
  /\ chain = [n \in 0..1 |-> 1]
  /\ blocks = {} /\ transactions = {} /\ receipts = {} /\ logs = EmptyBag
  /\ block_metrics = {} /\ event_counts = {} /\ enriched = {} /\ checkpoint = {}
  /\ pc = "start"
  /\ lastProcessed = Null /\ latestHead = Null /\ nextBlock = Null
  /\ prevHash = NoHash /\ rewindTo = Null /\ blk = NoBlock /\ rcpts = <<>>
  /\ i = Null /\ j = Null /\ err = "none"
  /\ failures = 0
  /\ pendingRewind = Null
  /\ latest = Null
  /\ retryOf = Null
  /\ queue = <<>> /\ active = <<>> /\ got = {}
  /\ batchLatch = TRUE
  /\ cls = NoCall
  /\ reorgBlock = NoBlock
  /\ lastCall = NoArgs
  /\ poolCache = <<>> /\ cacheLoaded = FALSE
  /\ pool_dex_cache = {}
  /\ pendingLookups = {} /\ probes = EmptyBag /\ settling = {}
  /\ lookup = NoLookup
  /\ resolved = <<>>
  /\ probed = {}

\* the poller of src/ingestion/poller.ts fetches receipts per hash only
Init == InitPoller /\ batchSupported = FALSE

(* remote chain *)
\* the chain grows by one block on the fork of its tip
NewBlock ==
  /\ getLatestBlockNumber < MaxHead
  /\ chain' = [n \in 0..(getLatestBlockNumber + 1) |->
                 IF n \in DOMAIN chain THEN chain[n] ELSE chain[getLatestBlockNumber]]
  /\ UNCHANGED <<store, pc, locals, failures, pendingRewind>>
  /\ UNCHANGED latest
  /\ UNCHANGED retryOf
  /\ UNCHANGED fetchState
  /\ UNCHANGED <<batch, cls, resolver, reorgBlock, lastCall>>

\* a reorg: a new fork replaces the blocks from number f up to the head
Reorg ==
  /\ chain[getLatestBlockNumber] < MaxFork
  /\ \E f \in 1..getLatestBlockNumber :
       chain' = [n \in DOMAIN chain |->
                   IF n >= f THEN chain[getLatestBlockNumber] + 1 ELSE chain[n]]
  /\ UNCHANGED <<store, pc, locals, failures, pendingRewind>>
  /\ UNCHANGED latest
  /\ UNCHANGED retryOf
  /\ UNCHANGED fetchState
  /\ UNCHANGED <<batch, cls, resolver, reorgBlock, lastCall>>

(* startPoller *)
\* let lastProcessed = getLastProcessedBlock()
Start ==
  /\ pc = "start"
  /\ lastProcessed' = getLastProcessedBlock
  /\ pc' = IF getLastProcessedBlock = Null THEN "coldHead" ELSE "loop"
  /\ UNCHANGED <<chain, store, latestHead, nextBlock, prevHash, rewindTo, blk, rcpts,
                 i, j, err, failures, pendingRewind>>
  /\ UNCHANGED latest
  /\ UNCHANGED retryOf
  /\ UNCHANGED fetchState
  /\ UNCHANGED <<batch, cls, resolver, reorgBlock, lastCall>>

\* first run: lastProcessed = latest - SAFETY_BUFFER_BLOCKS
ColdHead ==
  /\ pc = "coldHead"
  /\ latest' = getLatestBlockNumber
  /\ lastProcessed' = ColdStartFrom(latest')
  /\ pc' = "loop"
  /\ UNCHANGED <<chain, store, latestHead, nextBlock, prevHash, rewindTo, blk, rcpts,
                 i, j, err, failures, pendingRewind>>
  /\ UNCHANGED retryOf
  /\ UNCHANGED fetchState
  /\ UNCHANGED <<batch, cls, resolver, reorgBlock, lastCall>>

\* the head fetch of the first run raises: startPoller rejects, the process exits 1
ColdHeadFail ==
  /\ pc = "coldHead"
  /\ failures < MaxFailures
  /\ failures' = failures + 1
  /\ pc' = "exited"
  /\ UNCHANGED <<chain, store, locals, pendingRewind>>
  /\ UNCHANGED latest
  /\ UNCHANGED retryOf
  /\ UNCHANGED fetchState
  /\ UNCHANGED <<batch, cls, resolver, reorgBlock, lastCall>>

\* top of the loop: head fetch, nextBlock, the idle test, and handleReorg's
\* lookup of the stored block nextBlock - 1
PollHead ==
  /\ pc = "loop"
  /\ latestHead' = getLatestBlockNumber
  /\ nextBlock' = lastProcessed + 1
  /\ latest' = Null
  /\ IF NothingToProcess(nextBlock', latestHead')
       THEN pc' = "idle" /\ prevHash' = NoHash
       ELSE LET prevRow == getBlockByNumber(nextBlock' - 1) IN
            IF prevRow = {}
              THEN pc' = "procFetch" /\ prevHash' = NoHash
              ELSE pc' = "reorgFetch" /\ prevHash' = (CHOOSE r \in prevRow : TRUE).hash
  /\ UNCHANGED <<chain, store, lastProcessed, rewindTo, blk, rcpts, i, j, err,
                 failures, pendingRewind>>
  /\ UNCHANGED retryOf
  /\ UNCHANGED fetchState
  /\ UNCHANGED <<batch, cls, resolver, reorgBlock, lastCall>>

\* await sleep(cfg.POLL_INTERVAL_MS); continue
Idle ==
  /\ pc = "idle"
  /\ pc' = "loop"
  /\ latestHead' = Null /\ nextBlock' = Null
  /\ UNCHANGED <<chain, store, lastProcessed, prevHash, rewindTo, blk, rcpts, i, j, err,
                 failures, pendingRewind>>
  /\ UNCHANGED latest
  /\ UNCHANGED retryOf
  /\ UNCHANGED fetchState
  /\ UNCHANGED <<batch, cls, resolver, reorgBlock, lastCall>>

(* handleReorg *)
\* the remote block arrives and its parentHash is compared with prevRow.hash
ReorgFetch ==
  /\ pc = "reorgFetch"
  /\ nextBlock \in DOMAIN chain
  /\ LET block == RemoteBlock(nextBlock) IN
       IF toLowerCase(block.parentHash) # toLowerCase(prevHash)
         THEN rewindTo' = RewindTarget(nextBlock) /\ pc' = "markReorged"
         ELSE rewindTo' = Null /\ pc' = "procFetch"
  /\ pendingRewind' = Null
  /\ UNCHANGED <<chain, store, lastProcessed, latestHead, nextBlock, prevHash, blk,
                 rcpts, i, j, err, failures>>
  /\ UNCHANGED latest
  /\ UNCHANGED retryOf
  /\ UNCHANGED fetchState
  /\ UNCHANGED <<batch, cls, resolver>>
  /\ reorgBlock' = RemoteBlock(nextBlock)
  /\ UNCHANGED lastCall

\* stmts.markReorged.run(rewindTo)
RewindMark ==
  /\ pc = "markReorged"
  /\ blocks' = markReorged(rewindTo)
  /\ pc' = "delLogs"
  /\ UNCHANGED <<chain, transactions, receipts, logs, block_metrics, event_counts,
                 enriched, checkpoint, locals, failures, pendingRewind>>
  /\ UNCHANGED latest
  /\ UNCHANGED retryOf
  /\ UNCHANGED fetchState
  /\ UNCHANGED <<batch, cls, resolver, reorgBlock, lastCall>>

\* the transactions are deleted first, before the logs and receipts that
\* reference them
RewindLogsTxsFirst ==
  /\ pc = "delLogs"
  /\ transactions' = DeleteFrom(transactions, rewindTo)
  /\ pc' = "delReceipts"
  /\ UNCHANGED <<chain, blocks, receipts, logs, block_metrics, event_counts,
                 enriched, checkpoint, locals, failures, pendingRewind>>
  /\ UNCHANGED latest
  /\ UNCHANGED retryOf
  /\ UNCHANGED fetchState
  /\ UNCHANGED <<batch, cls, resolver, reorgBlock, lastCall>>

\* DELETE FROM logs WHERE blockNumber >= rewindNum
RewindLogs ==
  /\ pc = "delLogs"
  /\ logs' = DeleteLogsFrom(rewindTo)
  /\ pc' = "delReceipts"
  /\ UNCHANGED <<chain, blocks, transactions, receipts, block_metrics, event_counts,
                 enriched, checkpoint, locals, failures, pendingRewind>>
  /\ UNCHANGED latest
  /\ UNCHANGED retryOf
  /\ UNCHANGED fetchState
  /\ UNCHANGED <<batch, cls, resolver, reorgBlock, lastCall>>

\* DELETE FROM receipts WHERE blockNumber >= rewindNum
RewindReceipts ==
  /\ pc = "delReceipts"
  /\ receipts' = DeleteFrom(receipts, rewindTo)
  /\ pc' = "delTxs"
  /\ UNCHANGED <<chain, blocks, transactions, logs, block_metrics, event_counts,
                 enriched, checkpoint, locals, failures, pendingRewind>>
  /\ UNCHANGED latest
  /\ UNCHANGED retryOf
  /\ UNCHANGED fetchState
  /\ UNCHANGED <<batch, cls, resolver, reorgBlock, lastCall>>

\* DELETE FROM transactions WHERE blockNumber >= rewindNum
RewindTxs ==
  /\ pc = "delTxs"
  /\ transactions' = DeleteFrom(transactions, rewindTo)
  /\ pc' = "delMetrics"
  /\ UNCHANGED <<chain, blocks, receipts, logs, block_metrics, event_counts,
                 enriched, checkpoint, locals, failures, pendingRewind>>
  /\ UNCHANGED latest
  /\ UNCHANGED retryOf
  /\ UNCHANGED fetchState
  /\ UNCHANGED <<batch, cls, resolver, reorgBlock, lastCall>>

\* DELETE FROM block_metrics WHERE blockNumber >= rewindNum
RewindMetrics ==
  /\ pc = "delMetrics"
  /\ block_metrics' = DeleteFrom(block_metrics, rewindTo)
  /\ pc' = "delEvents"
  /\ UNCHANGED <<chain, blocks, transactions, receipts, logs, event_counts,
                 enriched, checkpoint, locals, failures, pendingRewind>>
  /\ UNCHANGED latest
  /\ UNCHANGED retryOf
  /\ UNCHANGED fetchState
  /\ UNCHANGED <<batch, cls, resolver, reorgBlock, lastCall>>

\* DELETE FROM event_counts WHERE blockNumber >= rewindNum
RewindEvents ==
  /\ pc = "delEvents"
  /\ event_counts' = DeleteFrom(event_counts, rewindTo)
  /\ pc' = "rewindCp"
  /\ UNCHANGED <<chain, blocks, transactions, receipts, logs, block_metrics,
                 enriched, checkpoint, locals, failures, pendingRewind>>
  /\ UNCHANGED latest
  /\ UNCHANGED retryOf
  /\ UNCHANGED fetchState
  /\ UNCHANGED <<batch, cls, resolver, reorgBlock, lastCall>>

\* setLastProcessedBlock(rewindTo - 1n)
RewindCheckpoint ==
  /\ pc = "rewindCp"
  /\ checkpoint' = setLastProcessedBlock(rewindTo - 1)
  /\ pc' = "rewound"
  /\ pendingRewind' = rewindTo
  /\ UNCHANGED <<chain, blocks, transactions, receipts, logs, block_metrics,
                 event_counts, enriched, locals, failures>>
  /\ UNCHANGED latest
  /\ UNCHANGED retryOf
  /\ UNCHANGED fetchState
  /\ UNCHANGED <<batch, cls, resolver, reorgBlock, lastCall>>

\* return rewindTo; processFrom < nextBlock: lastProcessed = processFrom - 1; continue
RewindReturn ==
  /\ pc = "rewound"
  /\ IF rewindTo < nextBlock
       THEN lastProcessed' = ResumeAfter(rewindTo) /\ pc' = "loop"
            /\ latestHead' = Null /\ nextBlock' = Null
       ELSE pc' = "procFetch" /\ UNCHANGED <<lastProcessed, latestHead, nextBlock>>
  /\ prevHash' = NoHash /\ rewindTo' = Null
  /\ retryOf' = IF rewindTo < nextBlock THEN Null ELSE retryOf
  /\ UNCHANGED <<chain, store, blk, rcpts, i, j, err, failures, pendingRewind>>
  /\ UNCHANGED latest
  /\ UNCHANGED fetchState
  /\ UNCHANGED <<batch, cls, resolver>>
  /\ reorgBlock' = NoBlock
  /\ UNCHANGED lastCall

(* processBlock *)
\* const block = await fetchBlockWithTxs(blockNumber)
ProcFetch ==
  /\ pc = "procFetch"
  /\ nextBlock \in DOMAIN chain
  /\ blk' = RemoteBlock(nextBlock)
  /\ pc' = "insBlock"
  /\ pendingRewind' = Null
  /\ UNCHANGED <<chain, store, lastProcessed, latestHead, nextBlock, prevHash, rewindTo,
                 rcpts, i, j, err, failures>>
  /\ UNCHANGED latest
  /\ UNCHANGED retryOf
  /\ UNCHANGED fetchState
  /\ UNCHANGED <<batch, cls, resolver>>
  /\ reorgBlock' = NoBlock
  /\ UNCHANGED lastCall

\* stmts.insertBlock.run(...)
InsBlock ==
  /\ pc = "insBlock"
  /\ blocks' = insertBlock(blk)
  /\ IF blk.transactions = <<>>
       THEN pc' = "fetchReceipts" /\ i' = Null
       ELSE pc' = "insTx" /\ i' = 1
  /\ UNCHANGED <<chain, transactions, receipts, logs, block_metrics, event_counts,
                 enriched, checkpoint, lastProcessed, latestHead, nextBlock, prevHash,
                 rewindTo, blk, rcpts, j, err, failures, pendingRewind>>
  /\ UNCHANGED latest
  /\ UNCHANGED retryOf
  /\ UNCHANGED fetchState
  /\ UNCHANGED <<batch, cls, resolver, reorgBlock, lastCall>>

\* for (const tx of txs) stmts.insertTx.run(...)
InsTx ==
  /\ pc = "insTx"
  /\ transactions' = insertTx(blk.transactions[i], blk.number)
  /\ IF i < Len(blk.transactions)
       THEN i' = i + 1 /\ pc' = "insTx"
       ELSE i' = Null /\ pc' = "fetchReceipts"
  /\ UNCHANGED <<chain, blocks, receipts, logs, block_metrics, event_counts,
                 enriched, checkpoint, lastProcessed, latestHead, nextBlock, prevHash,
                 rewindTo, blk, rcpts, j, err, failures, pendingRewind>>
  /\ UNCHANGED latest
  /\ UNCHANGED retryOf
  /\ UNCHANGED fetchState
  /\ UNCHANGED <<batch, cls, resolver, reorgBlock, lastCall>>

\* the fetches are issued and processBlock goes on without waiting for them
FetchReceiptsNotAwaited ==
  /\ pc = "fetchReceipts"
  /\ LET txs == blk.transactions
         p == Pump(queue \o [k \in DOMAIN txs |-> Task(txs, k)], active)
     IN queue' = p[1] /\ active' = p[2]
  /\ got' = {}
  /\ pc' = "insMetrics" /\ rcpts' = <<>>
  /\ UNCHANGED <<chain, store, lastProcessed, latestHead, nextBlock, prevHash, rewindTo,
                 blk, i, j, err, failures, pendingRewind, latest, retryOf>>
  /\ UNCHANGED <<batch, cls, resolver, reorgBlock, lastCall>>

\* fetchReceipts(txs.map((tx) => tx.hash)): one fetch per hash goes through
\* the limiter; Promise.all of no fetch resolves at once
FetchReceipts ==
  /\ pc = "fetchReceipts"
  /\ LET txs == blk.transactions
         p == Pump(queue \o [k \in DOMAIN txs |-> Task(txs, k)], active)
     IN queue' = p[1] /\ active' = p[2]
  /\ got' = {}
  /\ IF blk.transactions = <<>>
       THEN pc' = "insMetrics" /\ rcpts' = <<>>
       ELSE pc' = "awaitReceipts" /\ rcpts' = rcpts
  /\ UNCHANGED <<chain, store, lastProcessed, latestHead, nextBlock, prevHash, rewindTo,
                 blk, i, j, err, failures, pendingRewind, latest, retryOf>>
  /\ UNCHANGED <<batch, cls, resolver, reorgBlock, lastCall>>

\* a running fetch of the awaited call answers with its receipt; when it was
\* the last one Promise.all resolves and processBlock goes on
ReceiptArrives ==
  /\ pc = "awaitReceipts"
  /\ \E x \in DOMAIN active :
       /\ ~active[x].orphan
       /\ ReceiptFound(active[x].tx)
       /\ LET p == Pump(queue, Remove(active, x))
              done == got \cup {active[x].k}
          IN /\ queue' = p[1] /\ active' = p[2]
             /\ IF done = DOMAIN blk.transactions
                  THEN /\ rcpts' = [k \in DOMAIN blk.transactions |->
                                      RemoteReceipt(blk.transactions[k])]
                       /\ pc' = "insReceipt" /\ i' = 1 /\ got' = {}
                  ELSE /\ got' = done /\ UNCHANGED <<rcpts, pc, i>>
  /\ UNCHANGED <<chain, store, lastProcessed, latestHead, nextBlock, prevHash, rewindTo,
                 blk, j, err, failures, pendingRewind, latest, retryOf>>
  /\ UNCHANGED <<batch, cls, resolver, reorgBlock, lastCall>>

\* running fetch x of the awaited call rejects: Promise.all rejects, the
\* call's other fetches are left behind, processBlock throws
Reject(x) ==
  /\ ~active[x].orphan
  /\ LET p == Pump(queue, Remove(active, x))
     IN queue' = Abandon(p[1]) /\ active' = Abandon(p[2])
  /\ got' = {}
  /\ pc' = "catch"
  /\ err' = pc
  /\ UNCHANGED <<chain, store, lastProcessed, latestHead, nextBlock, prevHash, rewindTo,
                 blk, rcpts, i, j, pendingRewind, latest, retryOf>>
  /\ UNCHANGED <<batch, cls, resolver, reorgBlock, lastCall>>

\* a receipt is not found any more (its block left the chain)
FetchReceiptsNotFound ==
  /\ pc = "awaitReceipts"
  /\ \E x \in DOMAIN active : ~ReceiptFound(active[x].tx) /\ Reject(x)
  /\ UNCHANGED failures

\* the RPC call of a running fetch fails
FetchReceiptFails ==
  /\ pc = "awaitReceipts"
  /\ failures < MaxFailures
  /\ failures' = failures + 1
  /\ \E x \in DOMAIN active : Reject(x)

\* a fetch left behind by a rejected call settles; its outcome goes nowhere
OrphanSettles ==
  /\ \E x \in DOMAIN active :
       /\ active[x].orphan
       /\ LET p == Pump(queue, Remove(active, x))
          IN queue' = p[1] /\ active' = p[2]
  /\ UNCHANGED <<chain, store, pc, locals, failures, pendingRewind, latest, retryOf, got>>
  /\ UNCHANGED <<batch, cls, resolver, reorgBlock, lastCall>>

\* the checkpoint written right after the receipts, before metrics and event counts
AfterReceiptEarlyCheckpoint ==
  IF i < Len(rcpts)
    THEN i' = i + 1 /\ j' = Null /\ pc' = "insReceipt"
    ELSE i' = Null /\ j' = Null /\ pc' = "setCp"

\* where the receipt loop goes after receipt i is done
AfterReceipt ==
  IF i < Len(rcpts)
    THEN i' = i + 1 /\ j' = Null /\ pc' = "insReceipt"
    ELSE i' = Null /\ j' = Null /\ pc' = "insMetrics"

\* for (const receipt of receipts) stmts.insertReceipt.run(...)
InsReceipt ==
  /\ pc = "insReceipt"
  /\ receipts' = insertReceipt(rcpts[i], blk.number)
  /\ IF rcpts[i].logs # <<>>
       THEN i' = i /\ j' = 1 /\ pc' = "insLog"
       ELSE AfterReceipt
  /\ UNCHANGED <<chain, blocks, transactions, logs, block_metrics, event_counts,
                 enriched, checkpoint, lastProcessed, latestHead, nextBlock, prevHash,
                 rewindTo, blk, rcpts, err, failures, pendingRewind>>
  /\ UNCHANGED latest
  /\ UNCHANGED retryOf
  /\ UNCHANGED fetchState
  /\ UNCHANGED <<batch, cls, resolver, reorgBlock, lastCall>>

\* for (const log of receipt.logs) stmts.insertLog.run(...)
InsLog ==
  /\ pc = "insLog"
  /\ logs' = insertLog(rcpts[i], rcpts[i].logs[j], blk.number)
  /\ IF j < Len(rcpts[i].logs)
       THEN i' = i /\ j' = j + 1 /\ pc' = "insLog"
       ELSE AfterReceipt
  /\ UNCHANGED <<chain, blocks, transactions, receipts, block_metrics, event_counts,
                 enriched, checkpoint, lastProcessed, latestHead, nextBlock, prevHash,
                 rewindTo, blk, rcpts, err, failures, pendingRewind>>
  /\ UNCHANGED latest
  /\ UNCHANGED retryOf
  /\ UNCHANGED fetchState
  /\ UNCHANGED <<batch, cls, resolver, reorgBlock, lastCall>>

\* const metrics = computeBlockMetrics(txData, allLogs)
Metrics == computeBlockMetrics(TxData(rcpts, blk.transactions), AllLogs(rcpts))

\* stmts.insertBlockMetrics.run(...)
InsMetrics ==
  /\ pc = "insMetrics"
  /\ block_metrics' = insertBlockMetrics(blk.number, Metrics)
  /\ pc' = "insEvent" /\ i' = 1
  /\ UNCHANGED <<chain, blocks, transactions, receipts, logs, event_counts,
                 enriched, checkpoint, lastProcessed, latestHead, nextBlock, prevHash,
                 rewindTo, blk, rcpts, j, err, failures, pendingRewind>>
  /\ UNCHANGED latest
  /\ UNCHANGED retryOf
  /\ UNCHANGED fetchState
  /\ UNCHANGED <<batch, cls, resolver, reorgBlock, lastCall>>

\* for (const [eventType, count] of Object.entries(metrics.eventCounts))
\*   if (count > 0) stmts.insertEventCount.run(...)
InsEvent ==
  /\ pc = "insEvent"
  /\ LET eventType == EventKinds[i]
         count == Metrics.eventCounts[eventType]
     IN event_counts' = IF count > 0
                          THEN insertEventCount(blk.number, eventType, count)
                          ELSE event_counts
  /\ IF i < Len(EventKinds)
       THEN i' = i + 1 /\ pc' = "insEvent"
       ELSE i' = Null /\ pc' = "setCp"
  /\ UNCHANGED <<chain, blocks, transactions, receipts, logs, block_metrics,
                 enriched, checkpoint, lastProcessed, latestHead, nextBlock, prevHash,
                 rewindTo, blk, rcpts, j, err, failures, pendingRewind>>
  /\ UNCHANGED latest
  /\ UNCHANGED retryOf
  /\ UNCHANGED fetchState
  /\ UNCHANGED <<batch, cls, resolver, reorgBlock, lastCall>>

\* setLastProcessedBlock(blockNumber)
SetCheckpoint ==
  /\ pc = "setCp"
  /\ checkpoint' = setLastProcessedBlock(nextBlock)
  /\ pc' = "committed"
  /\ UNCHANGED <<chain, blocks, transactions, receipts, logs, block_metrics,
                 event_counts, enriched, locals, failures, pendingRewind>>
  /\ UNCHANGED latest
  /\ UNCHANGED retryOf
  /\ UNCHANGED fetchState
  /\ UNCHANGED <<batch, cls, resolver, reorgBlock, lastCall>>

\* processBlock has returned and lastProcessed is left as it was
CommittedKeepsLastProcessed ==
  /\ pc = "committed"
  /\ lastProcessed' = lastProcessed
  /\ pc' = "loop"
  /\ latestHead' = Null /\ nextBlock' = Null /\ blk' = NoBlock /\ rcpts' = <<>>
  /\ retryOf' = Null
  /\ UNCHANGED <<chain, store, prevHash, rewindTo, i, j, err, failures, pendingRewind>>
  /\ UNCHANGED latest
  /\ UNCHANGED fetchState
  /\ UNCHANGED <<batch, cls, resolver, reorgBlock, lastCall>>

\* processBlock returns: lastProcessed = nextBlock, next iteration
Committed ==
  /\ pc = "committed"
  /\ lastProcessed' = nextBlock
  /\ pc' = "loop"
  /\ latestHead' = Null /\ nextBlock' = Null /\ blk' = NoBlock /\ rcpts' = <<>>
  /\ retryOf' = Null
  /\ UNCHANGED <<chain, store, prevHash, rewindTo, i, j, err, failures, pendingRewind>>
  /\ UNCHANGED latest
  /\ UNCHANGED fetchState
  /\ UNCHANGED <<batch, cls, resolver, reorgBlock, lastCall>>

(* failures *)
\* the exception of an iteration is not caught: startPoller rejects, the
\* process exits
FailEscapes ==
  /\ pc \in TryPcs
  /\ failures < MaxFailures
  /\ failures' = failures + 1
  /\ pc' = "exited"
  /\ err' = pc
  /\ UNCHANGED <<chain, store, lastProcessed, latestHead, nextBlock, prevHash, rewindTo,
                 blk, rcpts, i, j, pendingRewind>>
  /\ UNCHANGED latest
  /\ UNCHANGED retryOf
  /\ UNCHANGED fetchState
  /\ UNCHANGED <<batch, cls, resolver, reorgBlock, lastCall>>

\* an RPC call or a store statement raises inside the try block
Fail ==
  /\ pc \in TryPcs
  /\ failures < MaxFailures
  /\ failures' = failures + 1
  /\ pc' = "catch"
  /\ err' = pc
  /\ UNCHANGED <<chain, store, lastProcessed, latestHead, nextBlock, prevHash, rewindTo,
                 blk, rcpts, i, j, pendingRewind>>
  /\ UNCHANGED latest
  /\ UNCHANGED retryOf
  /\ UNCHANGED fetchState
  /\ UNCHANGED <<batch, cls, resolver, reorgBlock, lastCall>>

\* a catch block that gives the failed block up and moves on to the next one
CatchSkipsBlock ==
  /\ pc = "catch"
  /\ pc' = "loop"
  /\ retryOf' = IF nextBlock # Null THEN nextBlock ELSE lastProcessed + 1
  /\ lastProcessed' = lastProcessed + 1
  /\ latestHead' = Null /\ nextBlock' = Null /\ prevHash' = NoHash /\ rewindTo' = Null
  /\ blk' = NoBlock /\ rcpts' = <<>> /\ i' = Null /\ j' = Null /\ err' = "none"
  /\ UNCHANGED <<chain, store, failures, pendingRewind, latest>>
  /\ UNCHANGED fetchState
  /\ UNCHANGED <<batch, cls, resolver>>
  /\ reorgBlock' = NoBlock
  /\ UNCHANGED lastCall

\* catch (err): log, await sleep(cfg.POLL_INTERVAL_MS * 2), next iteration
Catch ==
  /\ pc = "catch"
  /\ pc' = "loop"
  /\ retryOf' = IF nextBlock # Null THEN nextBlock ELSE lastProcessed + 1
  /\ latestHead' = Null /\ nextBlock' = Null /\ prevHash' = NoHash /\ rewindTo' = Null
  /\ blk' = NoBlock /\ rcpts' = <<>> /\ i' = Null /\ j' = Null /\ err' = "none"
  /\ UNCHANGED <<chain, store, lastProcessed, failures, pendingRewind>>
  /\ UNCHANGED latest
  /\ UNCHANGED fetchState
  /\ UNCHANGED <<batch, cls, resolver>>
  /\ reorgBlock' = NoBlock
  /\ UNCHANGED lastCall

\* SIGINT or SIGTERM arrives: neither startPoller nor the ingest entry point
\* installs a handler, so the runtime ends the process there and then (err
\* keeps the step that was under way, the locals what they held)
Sigterm ==
  /\ pc \notin {"start", "exited", "killed"}
  /\ failures < MaxFailures
  /\ failures' = failures + 1
  /\ pc' = "killed"
  /\ err' = pc
  /\ queue' = <<>> /\ active' = <<>> /\ got' = {}
  /\ UNCHANGED <<chain, store, lastProcessed, latestHead, nextBlock, prevHash, rewindTo,
                 blk, rcpts, i, j, pendingRewind, latest, retryOf, batch, cls, resolver, reorgBlock, lastCall>>

\* the process is killed (or has exited) and is started again: memory is lost,
\* the store file stays as the statements left it
Crash ==
  /\ pc # "start"
  /\ failures < MaxFailures
  /\ failures' = failures + 1
  /\ pc' = "start"
  /\ lastProcessed' = Null /\ latestHead' = Null /\ nextBlock' = Null
  /\ prevHash' = NoHash /\ rewindTo' = Null /\ blk' = NoBlock /\ rcpts' = <<>>
  /\ i' = Null /\ j' = Null /\ err' = "none"
  /\ latest' = Null /\ retryOf' = Null
  /\ queue' = <<>> /\ active' = <<>> /\ got' = {}
  /\ batchLatch' = TRUE
  /\ UNCHANGED <<chain, store, pendingRewind, batchSupported, cls, resolver>>
  /\ reorgBlock' = NoBlock
  /\ UNCHANGED lastCall

Next ==
  \/ NewBlock \/ Reorg
  \/ Start \/ ColdHead \/ ColdHeadFail \/ PollHead \/ Idle
  \/ ReorgFetch \/ RewindMark \/ RewindLogs \/ RewindReceipts \/ RewindTxs
  \/ RewindMetrics \/ RewindEvents \/ RewindCheckpoint \/ RewindReturn
  \/ ProcFetch \/ InsBlock \/ InsTx
  \/ FetchReceipts \/ ReceiptArrives \/ FetchReceiptsNotFound \/ FetchReceiptFails
  \/ OrphanSettles
  \/ InsReceipt \/ InsLog \/ InsMetrics \/ InsEvent \/ SetCheckpoint \/ Committed
  \/ Fail \/ Catch \/ Crash \/ Sigterm

Spec == Init /\ [][Next]_vars

\* the same program with no injected failure: every RPC call answers, no
\* statement raises and the process is never killed (no fetch is ever left
\* behind: a receipt is only missing for the single transaction of a block of
\* the first fork)
NextNoFailures ==
  \/ NewBlock \/ Reorg
  \/ Start \/ ColdHead \/ PollHead \/ Idle
  \/ ReorgFetch \/ RewindMark \/ RewindLogs \/ RewindReceipts \/ RewindTxs
  \/ RewindMetrics \/ RewindEvents \/ RewindCheckpoint \/ RewindReturn
  \/ ProcFetch \/ InsBlock \/ InsTx
  \/ FetchReceipts \/ ReceiptArrives \/ FetchReceiptsNotFound
  \/ InsReceipt \/ InsLog \/ InsMetrics \/ InsEvent \/ SetCheckpoint \/ Committed
  \/ Catch

SpecNoFailures == Init /\ [][NextNoFailures]_vars

(* ------------------- the poller left to run (liveness) ----------------- *)
\* number of forks the remote chain goes through before it stops changing
MaxForkLive == 3

\* the remote chain reorganises from block f on, at most MaxForkLive - 1
\* times, and goes on growing afterwards: a reorganisation is never the last
\* thing that happens to the chain
ReorgLive ==
  /\ chain[getLatestBlockNumber] < MaxForkLive
  /\ getLatestBlockNumber < MaxHead
  /\ \E f \in 1..getLatestBlockNumber :
       chain' = [n \in DOMAIN chain |->
                   IF n >= f THEN chain[getLatestBlockNumber] + 1 ELSE chain[n]]
  /\ UNCHANGED <<store, pc, locals, failures, pendingRewind>>
  /\ UNCHANGED latest
  /\ UNCHANGED retryOf
  /\ UNCHANGED fetchState
  /\ UNCHANGED <<batch, cls, resolver, reorgBlock, lastCall>>

\* the steps of the ingest process: every await resolves, every statement runs
PollerStep ==
  \/ Start \/ ColdHead \/ PollHead \/ Idle
  \/ ReorgFetch \/ RewindMark \/ RewindLogs \/ RewindReceipts \/ RewindTxs
  \/ RewindMetrics \/ RewindEvents \/ RewindCheckpoint \/ RewindReturn
  \/ ProcFetch \/ InsBlock \/ InsTx
  \/ FetchReceipts \/ ReceiptArrives \/ FetchReceiptsNotFound \/ OrphanSettles
  \/ InsReceipt \/ InsLog \/ InsMetrics \/ InsEvent \/ SetCheckpoint \/ Committed
  \/ Catch

NextLive == NewBlock \/ ReorgLive \/ PollerStep

\* what a step of the process always changes: its position, a loop index or
\* the receipt fetches under way
position == <<pc, i, j, fetchState>>

\* the remote chain reorganises a bounded number of times and keeps producing
\* blocks (up to MaxHead); the event loop keeps running the process: a timer
\* or an answered RPC call is eventually delivered
SpecLive == Init /\ [][NextLive]_vars /\ WF_position(PollerStep) /\ WF_chain(NewBlock)

(* --------------------- calls of the classifier ------------------------ *)
\* a log has at most four topics (LOG0 .. LOG4)
MaxTopics == 4

\* transaction values range over 0 .. MaxValue
MaxValue == 2

\* the spellings of a hash: lower-case, upper-case and mixed-case hex digits
Spellings == {"lower", "upper", "mixed"}

\* the topic0 values a log can carry: every signature of SIGNATURES and one
\* hash that is none of them, in every spelling
Topic0s ==
  {<<"keccak256", key, c>> : key \in SignatureKeys \cup {"UNKNOWN"}, c \in Spellings}

\* classifyTx(tx) applied to a transaction
ClassifyTx ==
  \E to \in {"null", "0xc"}, value \in 0..MaxValue, input \in {"0x", "0xa9"} :
    /\ cls' = [op |-> "classifyTx", topic0 |-> NoTopic, topicCount |-> Null,
               to |-> to, value |-> value, input |-> input,
               out |-> classifyTx([to |-> to, value |-> value, input |-> input])]
    /\ UNCHANGED <<chain, store, pc, locals, failures, pendingRewind, latest, retryOf,
                   fetchState, batch, resolver, reorgBlock, lastCall>>

\* classifyLog(topic0, topicCount) applied to a topic0 (or none) and a count
ClassifyLog ==
  \E topic0 \in Topic0s \cup {NoTopic}, topicCount \in 0..MaxTopics :
    /\ cls' = [op |-> "classifyLog", topic0 |-> topic0, topicCount |-> topicCount,
               to |-> "null", value |-> 0, input |-> "0x",
               out |-> classifier_classifyLog(topic0, topicCount)]
    /\ UNCHANGED <<chain, store, pc, locals, failures, pendingRewind, latest, retryOf,
                   fetchState, batch, resolver, reorgBlock, lastCall>>

\* computeBlockMetrics' loop over the logs: classifyLog(log.topics[0]), the
\* one call of classifyLog in the program; the log's topics are its topic0
\* followed by up to three indexed arguments, and no topic count is passed
CountLog ==
  \E topic0 \in Topic0s \cup {NoTopic}, n \in 0..MaxTopics :
    /\ (topic0 = NoTopic) <=> (n = 0)
    /\ cls' = [op |-> "computeBlockMetrics", topic0 |-> topic0, topicCount |-> n,
               to |-> "null", value |-> 0, input |-> "0x",
               out |-> classifier_classifyLog(topic0, Null)]
    /\ UNCHANGED <<chain, store, pc, locals, failures, pendingRewind, latest, retryOf,
                   fetchState, batch, resolver, reorgBlock, lastCall>>

NextClassify == ClassifyTx \/ ClassifyLog \/ CountLog

SpecClassify == Init /\ [][NextClassify]_vars

(* --------------------------- the pool registry ------------------------- *)

\* the tables createTables creates in the store file; nothing else in the
\* program creates a table
Tables ==
  {"blocks", "transactions", "receipts", "logs", "block_metrics", "event_counts",
   "token_transfers", "nft_transfers", "dex_swaps", "contract_deployments",
   "contract_labels", "daily_stats", "checkpoint"}

\* db.prepare of a statement on a table succeeds when the table exists and
\* throws "no such table" otherwise
prepare(table) == table \in Tables

\* the DEX names FACTORY_TO_DEX lists
DexNames ==
  {"Uniswap V3", "Uniswap V2", "Aerodrome V2", "Aerodrome CL", "PancakeSwap V3",
   "PancakeSwap V2", "Hydrex", "BaseSwap", "SushiSwap V3", "Maverick", "Balancer"}

\* FACTORY_TO_DEX: lower-case factory address -> DEX name; an address is
\* <<kind, contract, spelling of the hex digits>>
FACTORY_TO_DEX == [f \in {<<"factory", n, "lower">> : n \in DexNames} |-> f[2]]

UNISWAP_V4_POOL_MANAGER == <<"pool", "V4", "lower">>

CURVE_POOLS == {<<"pool", "Curve1", "lower">>, <<"pool", "Curve2", "lower">>}

\* queryPoolFactory's null, and the '' stored as the factory of a fallback name
NoFactory == <<>>

\* getDexForPoolSync's null
NoName == "null"

\* the contracts on the remote chain that emit swaps: X was deployed by the
\* Uniswap V3 factory, Y by a factory FACTORY_TO_DEX does not list, Z has no
\* factory() function; the node returns addresses in checksum (mixed) spelling
Factory(addr) ==
  CASE addr[2] = "X" -> <<"factory", "Uniswap V3", "mixed">>
    [] addr[2] = "Y" -> <<"factory", "Other", "mixed">>
    [] OTHER -> NoFactory

\* the pool addresses a log can carry
PoolAddresses ==
  {<<"pool", id, c>> : id \in {"X", "Y", "Z"}, c \in {"lower", "mixed"}}
    \cup {<<"pool", "V4", "mixed">>}

\* the topic0 of the swap events handed to getDexName
SwapTopics == {<<"keccak256", "SWAP_V3", "upper">>, <<"keccak256", "SWAP_CL", "lower">>}

\* the registry's RAW_SIGNATURES: two lower-case hex literals
RAW_SIGNATURES(key) == <<"keccak256", key, "lower">>

\* getFallbackDexName(topic0)
getFallbackDexName(topic0) ==
  LET sig == toLowerCase(topic0) IN
  IF sig = toLowerCase(RAW_SIGNATURES("TOKEN_EXCHANGE")) THEN "Curve"
  ELSE IF sig = toLowerCase(RAW_SIGNATURES("SWAP_CL")) THEN "Aerodrome CL"
  ELSE "Unknown DEX"

\* the decoder's getSignatureBasedDexName(topic0)
getSignatureBasedDexName(topic0) ==
  LET sig == toLowerCase(topic0) IN
  IF sig = RAW_SIGNATURES("TOKEN_EXCHANGE") THEN "Curve"
  ELSE IF sig = toLowerCase(SIGNATURES("SWAP_V3")) THEN "DEX V3"
  ELSE IF sig = toLowerCase(SIGNATURES("SWAP_V2")) THEN "DEX V2"
  ELSE IF sig = toLowerCase(SIGNATURES("SWAP_AERO")) THEN "DEX ve(3,3)"
  ELSE IF sig = RAW_SIGNATURES("SWAP_CL") THEN "DEX CL"
  ELSE "Unknown DEX"

\* the registry's module state and the durable table, as one record
Registry ==
  [cache |-> poolCache, loaded |-> cacheLoaded, rows |-> pool_dex_cache,
   pending |-> pendingLookups, probes |-> probes, settling |-> settling]

\* the state the registry is left in
SetRegistry(st) ==
  /\ poolCache' = st.cache /\ cacheLoaded' = st.loaded /\ pool_dex_cache' = st.rows
  /\ pendingLookups' = st.pending /\ probes' = st.probes /\ settling' = st.settling

\* initStatements(): the two statements are prepared inside try/catch; after
\* the call getPoolDexStmt and insertPoolDexStmt are statements when the
\* table exists and stay null when prepare threw
initStatements == prepare("pool_dex_cache")

\* insertPoolDexStmt.run(addr, factoryAddr, dexName): INSERT OR REPLACE
insertPoolDex(rows, addr, factoryAddr, dexName) ==
  {r \in rows : r.poolAddress # addr}
    \cup {[poolAddress |-> addr, factoryAddress |-> factoryAddr, dexName |-> dexName]}

\* loadCache(): once per process the rows of pool_dex_cache are read into
\* poolCache; a throwing SELECT is caught, and cacheLoaded is set either way
loadCache(st) ==
  IF st.loaded THEN st
  ELSE IF prepare("pool_dex_cache")
    THEN [st EXCEPT !.loaded = TRUE,
                    !.cache = [a \in DOMAIN st.cache \cup {toLowerCase(r.poolAddress) : r \in st.rows} |->
                                 IF \E r \in st.rows : toLowerCase(r.poolAddress) = a
                                 THEN (CHOOSE r \in st.rows : toLowerCase(r.poolAddress) = a).dexName
                                 ELSE st.cache[a]]]
    ELSE [st EXCEPT !.loaded = TRUE]

\* getDexForPoolSync(poolAddress): the name when a singleton, a Curve pool,
\* poolCache or pool_dex_cache knows the address, null otherwise
getDexForPoolSync(st, poolAddress) ==
  LET addr == toLowerCase(poolAddress) IN
  IF addr = UNISWAP_V4_POOL_MANAGER THEN [st |-> st, name |-> "Uniswap V4"]
  ELSE IF addr \in CURVE_POOLS THEN [st |-> st, name |-> "Curve"]
  ELSE LET st1 == loadCache(st) IN
    IF addr \in DOMAIN st1.cache THEN [st |-> st1, name |-> st1.cache[addr]]
    ELSE IF initStatements /\ \E r \in st1.rows : r.poolAddress = addr
      THEN LET row == CHOOSE r \in st1.rows : r.poolAddress = addr
           IN [st |-> [st1 EXCEPT !.cache = (addr :> row.dexName) @@ @], name |-> row.dexName]
      ELSE [st |-> st1, name |-> NoName]

\* getDexForPool(poolAddress, topic0) up to its await: steps 1 to 4 answer
\* from the singletons and the caches; NoName stands for reaching step 5,
\* where readContract sends the factory() call
getDexForPool(st, poolAddress) ==
  LET addr == toLowerCase(poolAddress) IN
  IF addr = UNISWAP_V4_POOL_MANAGER THEN [st |-> st, name |-> "Uniswap V4"]
  ELSE IF addr \in CURVE_POOLS THEN [st |-> st, name |-> "Curve"]
  ELSE LET st1 == loadCache(st) IN
    IF addr \in DOMAIN st1.cache THEN [st |-> st1, name |-> st1.cache[addr]]
    ELSE IF initStatements /\ \E r \in st1.rows : r.poolAddress = addr
      THEN LET row == CHOOSE r \in st1.rows : r.poolAddress = addr
           IN [st |-> [st1 EXCEPT !.cache = (addr :> row.dexName) @@ @], name |-> row.dexName]
      ELSE [st |-> st1, name |-> NoName]

\* queryPoolFactory(poolAddress): the lower-cased answer of factory(), or null
\* when readContract throws (no such function, or the call failed)
queryPoolFactory(poolAddress) ==
  {NoFactory} \cup (IF Factory(poolAddress) # NoFactory
                    THEN {toLowerCase(Factory(poolAddress))} ELSE {})

\* `Unknown (${factoryAddr.slice(0, 10)}...)`
unknownName(factoryAddr) == "Unknown (" \o factoryAddr[2] \o "...)"

\* getDexForPool after its await, factoryAddr being queryPoolFactory's result
\* (getDexName always passes a topic0)
getDexForPoolResume(st, addr, topic0, factoryAddr) ==
  LET set(name, f) ==
        [st EXCEPT !.cache = (addr :> name) @@ @,
                   !.rows = IF initStatements THEN insertPoolDex(@, addr, f, name) ELSE @]
  IN IF factoryAddr # NoFactory
     THEN IF factoryAddr \in DOMAIN FACTORY_TO_DEX
          THEN [st |-> set(FACTORY_TO_DEX[factoryAddr], factoryAddr),
                name |-> FACTORY_TO_DEX[factoryAddr]]
          ELSE [st |-> set(unknownName(factoryAddr), factoryAddr),
                name |-> unknownName(factoryAddr)]
     ELSE IF getFallbackDexName(topic0) # "Unknown DEX"
          THEN [st |-> set(getFallbackDexName(topic0), NoFactory),
                name |-> getFallbackDexName(topic0)]
          ELSE [st |-> st, name |-> "Unknown DEX"]

queuePoolLookupNoDedup(st, poolAddress, topic0) ==
  LET addr == toLowerCase(poolAddress)
      r == getDexForPool(st, addr)
  IN IF r.name = NoName
     THEN [r.st EXCEPT !.probes = @ (+) SetToBag({[addr |-> addr, topic0 |-> topic0]}),
                       !.pending = @ \cup {addr}]
     ELSE [r.st EXCEPT !.settling = @ \cup {addr}, !.pending = @ \cup {addr}]

\* queuePoolLookup(poolAddress, topic0): nothing for an address with a
\* pending lookup or a cached name; otherwise getDexForPool starts (its
\* factory() call is sent unless it answers at once) and the address is
\* entered in pendingLookups
queuePoolLookup(st, poolAddress, topic0) ==
  LET addr == toLowerCase(poolAddress)
      r == getDexForPool(st, addr)
  IN IF addr \in st.pending THEN st
     ELSE IF addr \in DOMAIN st.cache THEN st
     ELSE IF r.name = NoName
     THEN [r.st EXCEPT !.probes = @ (+) SetToBag({[addr |-> addr, topic0 |-> topic0]}),
                       !.pending = @ \cup {addr}]
     ELSE [r.st EXCEPT !.settling = @ \cup {addr}, !.pending = @ \cup {addr}]

getDexNameAwaits(st, poolAddress, topic0) ==
  LET cached == getDexForPoolSync(st, poolAddress)
      addr == toLowerCase(poolAddress)
      f == CHOOSE x \in queryPoolFactory(addr) : x # NoFactory \/ Factory(addr) = NoFactory
  IN IF cached.name # NoName
     THEN [st |-> cached.st, hit |-> TRUE, out |-> cached.name]
     ELSE [st |-> getDexForPoolResume(cached.st, addr, topic0, f).st, hit |-> FALSE,
           out |-> getDexForPoolResume(cached.st, addr, topic0, f).name]

\* the decoder's getDexName(poolAddress, topic0)
getDexName(st, poolAddress, topic0) ==
  LET cached == getDexForPoolSync(st, poolAddress)
  IN IF cached.name # NoName
     THEN [st |-> cached.st, hit |-> TRUE, out |-> cached.name]
     ELSE [st |-> queuePoolLookup(cached.st, poolAddress, topic0), hit |-> FALSE,
           out |-> getSignatureBasedDexName(topic0)]

\* a swap log is enriched: one call of getDexName
GetDexName ==
  \E poolAddress \in PoolAddresses, topic0 \in SwapTopics :
    LET r == getDexName(Registry, poolAddress, topic0) IN
    /\ SetRegistry(r.st)
    /\ lookup' = [tick |-> 1 - lookup.tick, pool |-> poolAddress, topic0 |-> topic0,
                  hit |-> r.hit, out |-> r.out]
    /\ UNCHANGED <<chain, store, pc, locals, failures, pendingRewind, latest, retryOf,
                   fetchState, batch, cls, reorgBlock, lastCall, resolved, probed>>

\* a factory() call is answered, or fails, and getDexForPool runs to its end
ProbeAnswers ==
  \E p \in BagToSet(probes) : \E factoryAddr \in queryPoolFactory(p.addr) :
    LET r == getDexForPoolResume([Registry EXCEPT !.probes = @ (-) SetToBag({p})],
                                 p.addr, p.topic0, factoryAddr) IN
    /\ SetRegistry([r.st EXCEPT !.settling = @ \cup {p.addr}])
    /\ resolved' = IF factoryAddr \in DOMAIN FACTORY_TO_DEX
                   THEN (p.addr :> FACTORY_TO_DEX[factoryAddr]) @@ resolved
                   ELSE resolved
    /\ probed' = probed \cup {p.addr}
    /\ UNCHANGED <<chain, store, pc, locals, failures, pendingRewind, latest, retryOf,
                   fetchState, batch, cls, reorgBlock, lastCall, lookup>>

\* the finally() of a settled lookup promise: pendingLookups.delete(addr)
LookupSettles ==
  \E addr \in settling :
    /\ pendingLookups' = pendingLookups \ {addr}
    /\ settling' = settling \ {addr}
    /\ UNCHANGED <<chain, store, pc, locals, failures, pendingRewind, latest, retryOf,
                   fetchState, batch, cls, reorgBlock, lastCall, poolCache, cacheLoaded, pool_dex_cache, probes,
                   lookup, resolved, probed>>

\* the process ends and is started again: the registry's Maps, its flag and
\* its calls in flight are gone, the store file is kept
Restart ==
  /\ cacheLoaded
  /\ poolCache' = <<>> /\ cacheLoaded' = FALSE
  /\ pendingLookups' = {} /\ probes' = EmptyBag /\ settling' = {}
  /\ probed' = {}
  /\ UNCHANGED <<chain, store, pc, locals, failures, pendingRewind, latest, retryOf,
                 fetchState, batch, cls, reorgBlock, lastCall, pool_dex_cache, lookup, resolved>>

NextResolver == GetDexName \/ ProbeAnswers \/ LookupSettles \/ Restart

SpecResolver == Init /\ [][NextResolver]_vars

(* ------------------- receipts in one round trip ---------------------- *)
\* fetchBlockReceipts with the catch left out: the RPC error reaches the caller
fetchBlockReceiptsThrows(blockNumber) ==
  IF batchSupported /\ blockNumber \in DOMAIN chain
    THEN LET txs == RemoteBlock(blockNumber).transactions
         IN [kind |-> "receipts", value |-> [k \in DOMAIN txs |-> RemoteReceipt(txs[k])]]
    ELSE [kind |-> "throws", value |-> <<>>]

\* fetchBlockReceipts(blockNumber): eth_getBlockReceipts; any error gives null
fetchBlockReceipts(blockNumber) ==
  IF batchSupported /\ blockNumber \in DOMAIN chain
    THEN LET txs == RemoteBlock(blockNumber).transactions
         IN [kind |-> "receipts", value |-> [k \in DOMAIN txs |-> RemoteReceipt(txs[k])]]
    ELSE [kind |-> "null", value |-> <<>>]

\* the block processor asks for the block's receipts in one call while the
\* latch is open
ProbeBlockReceipts ==
  /\ pc = "fetchReceipts"
  /\ batchLatch
  /\ pc' = "blockReceipts"
  /\ UNCHANGED <<chain, store, locals, failures, pendingRewind, latest, retryOf,
                 fetchState, batch, cls, resolver, reorgBlock, lastCall>>

\* the answer: the receipts, or null, which closes the latch and sends this
\* block to the per-hash fetches
BlockReceiptsAnswer ==
  /\ pc = "blockReceipts"
  /\ LET res == fetchBlockReceipts(nextBlock) IN
       IF res.kind = "throws"
         THEN pc' = "catch" /\ err' = pc /\ UNCHANGED <<rcpts, i, batchLatch>>
       ELSE IF res.kind = "null"
         THEN pc' = "fetchReceipts" /\ batchLatch' = FALSE /\ UNCHANGED <<rcpts, i, err>>
       ELSE /\ rcpts' = res.value
            /\ IF res.value = <<>>
                 THEN pc' = "insMetrics" /\ i' = i
                 ELSE pc' = "insReceipt" /\ i' = 1
            /\ UNCHANGED <<err, batchLatch>>
  /\ UNCHANGED <<chain, store, lastProcessed, latestHead, nextBlock, prevHash, rewindTo,
                 blk, j, failures, pendingRewind, latest, retryOf, fetchState,
                 batchSupported, cls, resolver, reorgBlock, lastCall>>

\* the latch is closed: receipts are fetched per hash
FetchReceiptsPerHash == ~batchLatch /\ FetchReceipts

\* the block processor that prefers blockReceipts, on a node that may or may
\* not implement it; no injected failure
InitBlockReceipts == InitPoller /\ batchSupported \in BOOLEAN

NextBlockReceipts ==
  \/ NewBlock \/ Reorg
  \/ Start \/ ColdHead \/ PollHead \/ Idle
  \/ ReorgFetch \/ RewindMark \/ RewindLogs \/ RewindReceipts \/ RewindTxs
  \/ RewindMetrics \/ RewindEvents \/ RewindCheckpoint \/ RewindReturn
  \/ ProcFetch \/ InsBlock \/ InsTx
  \/ ProbeBlockReceipts \/ BlockReceiptsAnswer \/ FetchReceiptsPerHash
  \/ ReceiptArrives \/ FetchReceiptsNotFound
  \/ InsReceipt \/ InsLog \/ InsMetrics \/ InsEvent \/ SetCheckpoint \/ Committed
  \/ Catch

SpecBlockReceipts == InitBlockReceipts /\ [][NextBlockReceipts]_vars

(* ------------------------------ properties ---------------------------- *)
\* the persisted checkpoint (read only where the checkpoint row exists)
Cp == getLastProcessedBlock

\* the dependent rows (every table but blocks) of block number n
DependentRows(n) ==
  {r \in transactions \cup receipts \cup BagToSet(logs) \cup block_metrics
         \cup event_counts \cup enriched : r.blockNumber = n}

\* the rows a complete write of block b (as fetched) leaves behind
BlockComplete(b) ==
  LET n == b.number
      txs == b.transactions
      txLogs == [k \in DOMAIN txs |-> LogsOf(txs[k])]
      nLogs(kind) == Cardinality({<<k, l>> \in (DOMAIN txs) \X (1..2) :
                        l \in DOMAIN txLogs[k] /\ classifyLog(txLogs[k][l].topic0) = kind})
      nTxs(kind) == Cardinality({k \in DOMAIN txs : classifyTx(txs[k]) = kind})
      totalLogs == Cardinality({<<k, l>> \in (DOMAIN txs) \X (1..2) : l \in DOMAIN txLogs[k]})
  IN /\ [number |-> n, hash |-> b.hash, parentHash |-> b.parentHash, reorged |-> 0] \in blocks
     /\ \A k \in DOMAIN txs :
          /\ [hash |-> txs[k].hash, blockNumber |-> n] \in transactions
          /\ [txHash |-> txs[k].hash, blockNumber |-> n, logCount |-> Len(txLogs[k])] \in receipts
          /\ \A l \in DOMAIN txLogs[k] :
               BagIn([txHash |-> txs[k].hash, blockNumber |-> n,
                      logIndex |-> txLogs[k][l].logIndex], logs)
     /\ [blockNumber |-> n, txCount |-> Len(txs), logCount |-> totalLogs] \in block_metrics
     /\ \A x \in DOMAIN EventKinds :
          LET kind == EventKinds[x] IN
          nTxs(kind) + nLogs(kind) > 0 =>
            [blockNumber |-> n, eventType |-> kind, count |-> nTxs(kind) + nLogs(kind)]
              \in event_counts

\* C1: when processBlock(n) fails at any step, no row of block n remains (a
\* blocks row at n can only be one an earlier rewind flagged) and the
\* checkpoint is not n: the per-block write is atomic.
C1_AtomicBlockWrite ==
  (pc = "catch" /\ err \in ProcessPcs) =>
     /\ DependentRows(nextBlock) = {}
     /\ \A r \in blocks : r.number = nextBlock => r.reorged = 1
     /\ (checkpoint # {} => Cp # nextBlock)

C3_Monotonic ==
  [][checkpoint # {} => (checkpoint' # {} /\ Cp' >= Cp)]_vars

\* C3 (amended): the persisted checkpoint never disappears and never
\* decreases, except in the checkpoint write of a reorg rewind, which sets
\* it to nextBlock - REORG_REWIND_DEPTH - 1.
C3_MonotonicExceptRewind ==
  [][checkpoint # {} =>
       /\ checkpoint' # {}
       /\ \/ Cp' >= Cp
          \/ pc = "rewindCp" /\ Cp' = nextBlock - REORG_REWIND_DEPTH - 1]_vars

\* a rewind has just lowered the checkpoint below the poller's lastProcessed
C3_Witness ==
  pc = "rewound" /\ checkpoint # {} /\ Cp < lastProcessed

\* C4: any two stored non-reorged blocks at consecutive numbers are linked:
\* the lower one's hash is the upper one's parentHash.
C4_ChainContinuity ==
  \A b \in blocks : \A p \in blocks :
    (b.reorged = 0 /\ p.reorged = 0 /\ p.number = b.number - 1)
      => toLowerCase(p.hash) = toLowerCase(b.parentHash)

\* C5: the non-reorged blocks have no gaps: every non-reorged block above
\* the lowest one has a non-reorged block right below it.
C5_NoGaps ==
  LET live == {r.number : r \in {x \in blocks : x.reorged = 0}} IN
  \A n \in live : (\E m \in live : m < n) => (n - 1) \in live

\* C6: after a restart the poller resumes at checkpoint + 1, and no
\* (txHash, logIndex) pair is in the logs table more than once.
C6_NoDuplicateLogs ==
  /\ (pc = "loop" /\ checkpoint # {}) => lastProcessed = Cp
  /\ \A r \in BagToSet(logs) :
       Cardinality({x \in BagToSet(logs) : x.txHash = r.txHash /\ x.logIndex = r.logIndex}) = 1
       /\ CopiesIn(r, logs) = 1

C8_RewindAtomic ==
  pc = "start" =>
    \A r \in blocks : r.reorged = 1 => (checkpoint # {} /\ Cp < r.number)

\* C9: a rewind goes to exactly nextBlock - REORG_REWIND_DEPTH, sets the
\* checkpoint to that minus one, and the next block fetched (by the reorg
\* check or by processBlock) after it is the rewind target.
C9_RewindDepth ==
  /\ pc \in RewindPcs \cup {"rewound"} => rewindTo = nextBlock - REORG_REWIND_DEPTH
  /\ pc = "rewound" => (checkpoint # {} /\ Cp = nextBlock - REORG_REWIND_DEPTH - 1)
  /\ (pc \in {"reorgFetch", "procFetch"} /\ pendingRewind # Null)
       => nextBlock = pendingRewind

\* the first block fetch after a completed rewind is under way
C9_Witness ==
  /\ pc \in {"reorgFetch", "procFetch"}
  /\ pendingRewind # Null /\ nextBlock = pendingRewind
  /\ Cp = pendingRewind - 1

\* C10: a block is processed only if its number is at most
\* latestHead - SAFETY_BUFFER_BLOCKS.
C10_SafetyBuffer ==
  pc \in ProcessPcs \cup {"reorgFetch"} => nextBlock <= latestHead - SAFETY_BUFFER_BLOCKS

\* C11: on a cold start with head H the checkpoint is H - SAFETY_BUFFER_BLOCKS
\* once startPoller enters its loop, and the first block the loop takes up
\* is H - SAFETY_BUFFER_BLOCKS + 1.
C11_ColdStartSeed ==
  (pc = "loop" /\ latest # Null) =>
     /\ checkpoint # {} /\ Cp = latest - SAFETY_BUFFER_BLOCKS
     /\ lastProcessed + 1 = latest - SAFETY_BUFFER_BLOCKS + 1

\* C12: after a step of the iteration for block next has raised, the block
\* number the poller takes up next is the same number, and every write that
\* changes the checkpoint is either the last statement of
\* processBlock(nextBlock), which sets it to nextBlock, the successor of
\* lastProcessed, or a rewind's write, which sets it below nextBlock.
C12_RetrySameBlock ==
  [][/\ (retryOf' # Null /\ pc' \in {"idle", "reorgFetch", "procFetch"})
          => nextBlock' = retryOf'
     /\ checkpoint' # checkpoint
          => \/ pc = "setCp" /\ Cp' = nextBlock /\ nextBlock = lastProcessed + 1
             \/ pc = "rewindCp" /\ Cp' < nextBlock]_vars

\* a block whose receipt fetch or store write raised is being processed again
C12_Witness ==
  /\ pc \in ProcessPcs /\ retryOf # Null /\ nextBlock = retryOf
  /\ \E r \in blocks : r.number = nextBlock /\ r.reorged = 0

\* every transaction, receipt and log row stored for block b's number was
\* written from b's own content (no row of another version of the block)
SameContent(b) ==
  \A r \in transactions \cup receipts \cup BagToSet(logs) :
    r.blockNumber = b.number =>
      \E k \in DOMAIN b.transactions :
        b.transactions[k].hash = (IF "hash" \in DOMAIN r THEN r.hash ELSE r.txHash)

\* the store holds for block b exactly the rows one processBlock writes,
\* log rows included when WithLogs
StoredOnce(b, WithLogs) ==
  /\ BlockComplete(b)
  /\ Cardinality({r \in blocks : r.number = b.number}) = 1
  /\ Cardinality({r \in transactions : r.blockNumber = b.number}) = Len(b.transactions)
  /\ Cardinality({r \in receipts : r.blockNumber = b.number}) = Len(b.transactions)
  /\ Cardinality({r \in block_metrics : r.blockNumber = b.number}) = 1
  /\ \A r \in event_counts :
       r.blockNumber = b.number => (r.count > 0 /\ r.count = Metrics.eventCounts[r.eventType])
  /\ WithLogs => \A r \in BagToSet(logs) : r.blockNumber = b.number => CopiesIn(r, logs) = 1

\* C13: when processBlock(n) commits and every row already stored for n came
\* from the same remote content (an earlier processing of the same block),
\* the store holds for block n exactly what a single processing leaves:
\* one row per block, transaction, receipt, metric, event count and log.
C13_Idempotent ==
  (pc = "committed" /\ SameContent(blk)) => StoredOnce(blk, TRUE)

\* the receipt fetches, queued or running, that a fetchReceipts call still waits for
LiveFetches ==
  {queue[x] : x \in {y \in DOMAIN queue : ~queue[y].orphan}} \cup
  {active[x] : x \in {y \in DOMAIN active : ~active[y].orphan}}

\* C14: one block is in flight at a time: every receipt fetch that a call
\* still waits for belongs to the block being processed, a block's rows are
\* written only by the processBlock of that block, and the poller takes up
\* another block number only after that processBlock has committed or failed
\* (or the process has ended).
C14_OneBlockInFlight ==
  [][/\ \A t \in LiveFetches' : pc' = "awaitReceipts" /\ t.tx.hash[1] = nextBlock'
     /\ \A r \in (transactions' \ transactions) \cup (receipts' \ receipts)
                 \cup (block_metrics' \ block_metrics) \cup (event_counts' \ event_counts)
                 \cup (BagToSet(logs') \ BagToSet(logs)) :
          pc \in ProcessPcs /\ r.blockNumber = nextBlock /\ blk.number = nextBlock
     /\ \A r \in blocks' \ blocks :
          r.reorged = 0 => (pc = "insBlock" /\ r.number = nextBlock)
     /\ (pc \in ProcessPcs /\ pc' # "start") => nextBlock' = nextBlock
     /\ (pc \in ProcessPcs /\ pc' \notin ProcessPcs)
          => pc' \in {"committed", "catch", "start", "killed"}
    ]_vars

\* a block with two transactions is in flight: one receipt fetch is running,
\* the other waits in the limiter's queue
C14_Witness ==
  /\ pc = "awaitReceipts" /\ Len(blk.transactions) = 2
  /\ \E t \in LiveFetches : t.k = 2
  /\ \E r \in transactions : r.blockNumber = nextBlock

\* C15: the receipt fetches started and not settled are never more than
\* CONCURRENCY_LIMIT, and a fetch waits in the queue only while that many run.
C15_ConcurrencyLimit ==
  /\ Len(active) <= CONCURRENCY_LIMIT
  /\ queue # <<>> => Len(active) = CONCURRENCY_LIMIT

\* the poller retries a block whose fetch failed: the fetches of the retry
\* wait in the queue while a fetch left behind by the failed call still runs
C15_Witness ==
  /\ pc = "awaitReceipts"
  /\ \E x \in DOMAIN active : active[x].orphan
  /\ \E x \in DOMAIN queue : ~queue[x].orphan
  /\ Len(active) = CONCURRENCY_LIMIT

C17_GracefulShutdown ==
  (pc = "killed" /\ err \in ProcessPcs \ {"procFetch"}) =>
     /\ checkpoint # {} /\ Cp = nextBlock
     /\ BlockComplete(blk)

RECURSIVE SumCounts(_, _)
\* the sum of the counts of block n's event_counts rows of the first x kinds
SumCounts(n, x) ==
  IF x = 0 THEN 0
  ELSE LET rows == {r \in event_counts : r.blockNumber = n /\ r.eventType = EventKinds[x]}
       IN (IF rows = {} THEN 0 ELSE (CHOOSE r \in rows : TRUE).count) + SumCounts(n, x - 1)

\* C18: for a block that has just been committed, the counts of its
\* event_counts rows add up to its block_metrics.logCount plus the number
\* of its transactions: every log and every transaction is counted once.
C18_EventCountsTotal ==
  pc = "committed" =>
    \A m \in block_metrics :
      m.blockNumber = nextBlock =>
        SumCounts(nextBlock, Len(EventKinds)) = m.logCount + Len(blk.transactions)


\* classifyLog called with the topic count honours the tie-break: a Transfer
\* topic0 in any spelling is an ERC-721 transfer with four topics and an
\* ERC-20 transfer with any other count
TieBreakOfClassifyLog ==
  (cls.op = "classifyLog" /\ cls.topic0 # NoTopic
     /\ toLowerCase(cls.topic0) = SIGNATURES("TRANSFER"))
    => cls.out = IF cls.topicCount = 4 THEN "erc721_transfer" ELSE "erc20_transfer"

\* C19: a log whose topic0 is the Transfer signature, in any letter case, is
\* classified erc721_transfer when it has exactly four topics and
\* erc20_transfer with any other number of topics, wherever the program
\* classifies it: in a call of classifyLog that is given the count, and in
\* computeBlockMetrics' loop over the logs of a block.
C19_TransferTieBreak ==
  (cls.op \in {"classifyLog", "computeBlockMetrics"} /\ cls.topic0 # NoTopic
     /\ toLowerCase(cls.topic0) = SIGNATURES("TRANSFER"))
    => cls.out = IF cls.topicCount = 4 THEN "erc721_transfer" ELSE "erc20_transfer"

\* C20: classifyTx returns one of three kinds, and which one is decided by
\* the transaction alone: contract_creation exactly when the recipient is
\* null (whatever the value and the input), eth_transfer exactly when the
\* recipient is not null, the value is positive and the input is empty
\* ('0x'), contract_call in every other case.
C20_ClassifyTxOneKind ==
  cls.op = "classifyTx" =>
    LET creation == cls.to = "null"
        transfer == cls.to # "null" /\ cls.value > 0 /\ cls.input = "0x"
    IN /\ cls.out \in {"contract_creation", "eth_transfer", "contract_call"}
       /\ (cls.out = "contract_creation") <=> creation
       /\ (cls.out = "eth_transfer") <=> transfer
       /\ (cls.out = "contract_call") <=> (~creation /\ ~transfer)

\* a creation that carries value and has empty input is a contract_creation
C20_Witness ==
  /\ cls.op = "classifyTx" /\ cls.to = "null" /\ cls.value > 0 /\ cls.input = "0x"
  /\ cls.out = "contract_creation"


\* the log kinds enumerated by the specification of the classifier
LogKinds ==
  {"erc20_transfer", "erc721_transfer", "erc1155_transfer", "dex_swap_v2",
   "dex_swap_v3", "dex_swap_aero", "dex_swap_curve", "liquidity_add",
   "liquidity_remove", "liquidity_collect", "pool_sync", "pool_created", "approval",
   "weth_wrap", "weth_unwrap", "user_operation", "flash_loan", "reward_claim",
   "gauge_deposit", "gauge_withdraw", "vote", "ownership_change", "contract_upgrade",
   "bridge_send", "bridge_receive", "lending_supply", "lending_withdraw",
   "lending_borrow", "lending_repay", "lending_liquidation", "oracle_update",
   "multisig_exec", "protocol_fees", "governance", "staking", "nft_position_mint",
   "nft_position_burn", "other"}

\* C30: classifyLog returns, for every topic0 (a missing one included) and
\* every topic count, a kind of the enumerated set LogKinds, and that kind is
\* "other" whenever topic0 is missing or is the hash of no signature of the
\* registry.
C30_ClassifyLogTotal ==
  cls.op = "classifyLog" =>
    /\ cls.out \in LogKinds
    /\ (\/ cls.topic0 = NoTopic
        \/ \A key \in SignatureKeys : toLowerCase(cls.topic0) # toLowerCase(SIGNATURES(key)))
         => cls.out = "other"


\* two spellings of the same hash value
SameHash(a, b) == a[1] = b[1] /\ a[2] = b[2]

\* C25: handleReorg(next) returns next and changes no table and no
\* checkpoint when no non-reorged block is stored at next - 1, and when the
\* remote block's parentHash is the stored hash of next - 1 in whatever
\* letter case; the poller then goes on to process next.
C25_ProceedLeavesStore ==
  [][/\ (pc = "loop" /\ pc' \in {"procFetch", "reorgFetch"}
           /\ getBlockByNumber(nextBlock' - 1) = {})
        => (pc' = "procFetch" /\ store' = store /\ nextBlock' = lastProcessed + 1)
     /\ (pc = "reorgFetch" /\ pc' \in {"procFetch", "markReorged"}
           /\ SameHash(RemoteBlock(nextBlock).parentHash, prevHash))
        => (pc' = "procFetch" /\ store' = store /\ nextBlock' = nextBlock
            /\ lastProcessed' = lastProcessed)
     /\ (pc \in {"loop", "reorgFetch"} /\ pc' = "procFetch") => store' = store]_vars

\* handleReorg has found the stored hash of next - 1 in the remote block's
\* parentHash, spelled in the other letter case, and has returned next
C25_Witness ==
  /\ pc = "procFetch" /\ nextBlock \in DOMAIN chain
  /\ \E r \in getBlockByNumber(nextBlock - 1) :
        /\ r.hash # RemoteBlock(nextBlock).parentHash
        /\ SameHash(r.hash, RemoteBlock(nextBlock).parentHash)


\* the rows of a table below block number r
Below(table, r) == {x \in table : x.blockNumber < r}

\* C26: no step of a rewind to rewindTo deletes a blocks row (a row keeps its
\* number and hashes; at most its reorged flag is set), and every row with a
\* block number below rewindTo, in every table, is left as it is; blocks
\* below rewindTo keep their reorged flag.
C26_RewindFrame ==
  [][(pc \in RewindPcs) =>
      (/\ \A b \in blocks :
            \E c \in blocks' :
              /\ c.number = b.number /\ c.hash = b.hash /\ c.parentHash = b.parentHash
              /\ (b.number < rewindTo => c = b)
       /\ Cardinality(blocks') = Cardinality(blocks)
       /\ Below(transactions', rewindTo) = Below(transactions, rewindTo)
       /\ Below(receipts', rewindTo) = Below(receipts, rewindTo)
       /\ Below(block_metrics', rewindTo) = Below(block_metrics, rewindTo)
       /\ Below(event_counts', rewindTo) = Below(event_counts, rewindTo)
       /\ Below(enriched', rewindTo) = Below(enriched, rewindTo)
       /\ \A x \in BagToSet(logs) \cup BagToSet(logs') :
            x.blockNumber < rewindTo => CopiesIn(x, logs') = CopiesIn(x, logs))]_vars

\* a rewind has completed with a flagged block at or above its target and,
\* below it, a block that is still not reorged together with its rows
C26_Witness ==
  /\ pc = "rewound"
  /\ \E b \in blocks : b.number >= rewindTo /\ b.reorged = 1
  /\ \E b \in blocks :
        /\ b.number < rewindTo /\ b.reorged = 0
        /\ \E t \in transactions : t.blockNumber = b.number
        /\ \E x \in BagToSet(logs) : x.blockNumber = b.number


\* C27: in every state of the store, the states between two writes of
\* processBlock and between two deletes of a rewind included, every
\* transactions row references a stored block, and every receipts row and
\* every logs row references a stored transaction.
C27_ReferentialIntegrity ==
  /\ \A t \in transactions : \E b \in blocks : b.number = t.blockNumber
  /\ \A r \in receipts : \E t \in transactions : t.hash = r.txHash
  /\ \A x \in BagToSet(logs) : \E t \in transactions : t.hash = x.txHash

\* in the middle of a rewind: the logs and receipts of the rewound blocks are
\* gone, their transactions are still stored
C27_Witness ==
  /\ pc = "delTxs"
  /\ \E t \in transactions : t.blockNumber >= rewindTo
  /\ \A r \in receipts : r.blockNumber < rewindTo
  /\ \E r \in receipts : r.blockNumber < rewindTo


C22_OneProbeInFlight ==
  [][/\ \A p \in BagToSet(probes') :
          /\ CopiesIn(p, probes') = 1
          /\ \A q \in BagToSet(probes') : q.addr = p.addr => q = p
     /\ (lookup'.tick # lookup.tick /\ toLowerCase(lookup'.pool) \in pendingLookups)
          => probes' = probes]_vars

\* a second miss on an address, with another topic0 than the one in flight
C22_Witness ==
  /\ ~lookup.hit
  /\ \E p \in BagToSet(probes) :
       p.addr = toLowerCase(lookup.pool) /\ p.topic0 # lookup.topic0

(* C23: once a probe has resolved an address to a known DEX name, every
   later call of getDexName for that address returns that name. *)
C23_ResolvedNameReturned ==
  [][(lookup'.tick # lookup.tick /\ toLowerCase(lookup'.pool) \in DOMAIN resolved)
       => lookup'.out = resolved[toLowerCase(lookup'.pool)]]_vars

(* C29: a name resolved by a probe is a row of pool_dex_cache, and a call of
   getDexName for that address returns the name and sends no factory() call,
   also after a restart. *)
C29_DurableAcrossRestart ==
  [][/\ \A addr \in DOMAIN resolved' :
          \E r \in pool_dex_cache' : r.poolAddress = addr /\ r.dexName = resolved'[addr]
     /\ (lookup'.tick # lookup.tick /\ toLowerCase(lookup'.pool) \in DOMAIN resolved)
          => /\ lookup'.hit /\ lookup'.out = resolved[toLowerCase(lookup'.pool)]
             /\ probes' = probes]_vars


\* every block number from r up to the checkpoint is stored, not flagged as
\* reorged, with the hash the remote chain has at that number
ConsistentFrom(r) ==
  /\ \A b \in blocks :
       (b.number >= r /\ b.number <= Cp) =>
          /\ b.reorged = 0
          /\ b.number \in DOMAIN chain
          /\ b.hash = RemoteBlock(b.number).hash
  /\ \A n \in r..Cp : \E b \in blocks : b.number = n

(* C24: after a rewind to rewindTo, once the remote chain has stopped
   changing, eventually and from then on every block from rewindTo up to the
   checkpoint is stored, non-reorged and carries the canonical hash. *)
C24_RewindConverges ==
  \A r \in (0 - REORG_REWIND_DEPTH)..MaxHead :
    (pc = "rewound" /\ rewindTo = r) ~> [](ConsistentFrom(r))


(* C38: once a factory() call for an address has completed in this process,
   whatever its outcome, no later call of getDexName sends another factory()
   call for that address. *)
C38_ProbedOnce ==
  [][\A p \in BagToSet(probes') :
        p.addr \in probed => CopiesIn(p, probes) >= CopiesIn(p, probes')]_vars


(* C34: the block processBlock fetches and persists is the block handleReorg
   fetched in the same iteration, the one whose parentHash it compared with
   the stored block below. *)
C34_CheckedBlockIsStored ==
  [][(pc = "procFetch" /\ pc' = "insBlock" /\ reorgBlock # NoBlock)
       => blk' = reorgBlock]_vars


(* C36: at the start of every poll iteration, once a checkpoint has been
   written, the poller's in-memory lastProcessed equals the persisted
   checkpoint. *)
C36_LastProcessedIsCheckpoint ==
  (pc = "loop" /\ checkpoint # {}) => lastProcessed = Cp

\* the start of an iteration after a rewind whose iteration raised on the way:
\* blocks flagged as reorged, one failure, checkpoint below a stored block
C36_Witness ==
  /\ pc = "loop" /\ checkpoint # {} /\ failures = 1
  /\ lastProcessed = Cp
  /\ \E b \in blocks : b.reorged = 1 /\ b.number > Cp

(* --------------------------- the rewind target ------------------------- *)

\* the block numbers and the configured depths handleReorg is applied to
MaxBlockNo == 12
MaxDepth == 10

\* rewindTo = currentBlock - BigInt(cfg.REORG_REWIND_DEPTH), for a configured
\* depth: cfg.REORG_REWIND_DEPTH is any number the environment gives
RewindTargetAt(currentBlock, depth) == currentBlock - depth

\* handleReorg(currentBlock) when the parent hashes differ: the target, the
\* bound of markReorged and of the five DELETEs, the checkpoint written by
\* setLastProcessedBlock(rewindTo - 1n), and the value returned
handleReorgRewinds(currentBlock, depth) ==
  LET target == RewindTargetAt(currentBlock, depth)
  IN [rewindTo    |-> target,
      markedFrom  |-> target,
      checkpoint  |-> target - 1,
      processFrom |-> target]

\* handleReorg detects a reorg at a block, under a configured depth
HandleReorgDetects ==
  \E currentBlock \in 1..MaxBlockNo, depth \in 1..MaxDepth :
    /\ lastCall' = [op   |-> "handleReorg",
                    args |-> [currentBlock |-> currentBlock, depth |-> depth],
                    out  |-> handleReorgRewinds(currentBlock, depth)]
    /\ UNCHANGED <<chain, store, pc, locals, failures, pendingRewind, latest, retryOf,
                   fetchState, batch, cls, resolver, reorgBlock>>

\* the poll loop after handleReorg returned processFrom < nextBlock:
\* lastProcessed = processFrom - 1n; continue; the next iteration computes
\* nextBlock = lastProcessed + 1n and, nextBlock being no greater than the
\* head, asks the remote for that block
PollAfterRewind ==
  /\ lastCall.op = "handleReorg"
  /\ lastCall.out.processFrom < lastCall.args.currentBlock
  /\ LET resumed == ResumeAfter(lastCall.out.processFrom)
     IN lastCall' = [op   |-> "startPoller",
                     args |-> lastCall.args,
                     out  |-> [lastProcessed |-> resumed,
                               checkpoint    |-> lastCall.out.checkpoint,
                               requested     |-> resumed + 1]]
  /\ UNCHANGED <<chain, store, pc, locals, failures, pendingRewind, latest, retryOf,
                 fetchState, batch, cls, resolver, reorgBlock>>

NextRewind == HandleReorgDetects \/ PollAfterRewind

SpecRewind == Init /\ [][NextRewind]_vars

(* C37: handleReorg never produces a rewind target below block 0: whatever
   the block it is applied to and whatever REORG_REWIND_DEPTH, the target is
   at least 0, the checkpoint it writes is at least -1, and the block the
   poller asks for next has a number that is not negative. *)
C37_RewindTargetNotNegative ==
  /\ lastCall.op = "handleReorg" =>
       lastCall.out.rewindTo >= 0 /\ lastCall.out.checkpoint >= -1
  /\ lastCall.op = "startPoller" =>
       lastCall.out.checkpoint >= -1 /\ lastCall.out.requested >= 0

\* the kinds computeBlockMetrics counts at least once for fork k of block n
KindsOfVersion(n, k) ==
  LET txs == TxsOf(n, k)
      rcs == [x \in DOMAIN txs |-> RemoteReceipt(txs[x])]
      m   == computeBlockMetrics(TxData(rcs, txs), AllLogs(rcs))
  IN {kind \in DOMAIN m.eventCounts : m.eventCounts[kind] > 0}

(* C35: between two iterations of the poller, every transactions, receipts
   and logs row whose blockNumber is that of a committed, non-reorged block
   belongs to the version of the block stored under that number, and every
   event_counts row of the number is of a kind this version has: when block
   n was written again with different content, no row of the version
   written before remains. *)
C35_RowsBelongToStoredBlock ==
  (pc = "loop" /\ checkpoint # {}) =>
    \A b \in blocks :
      (b.reorged = 0 /\ b.number <= Cp) =>
        /\ \A t \in transactions : t.blockNumber = b.number => t.hash[2] = b.hash[2]
        /\ \A r \in receipts : r.blockNumber = b.number => r.txHash[2] = b.hash[2]
        /\ \A x \in BagToSet(logs) : x.blockNumber = b.number => x.txHash[2] = b.hash[2]
        /\ \A e \in event_counts :
             e.blockNumber = b.number => e.eventType \in KindsOfVersion(b.number, b.hash[2])

(* ----------------------------- top contracts --------------------------- *)

\* the logs of a block under test: how many, and how many emitting addresses
MaxLogs == 6
MaxAddr == 6

\* an emitting address as the remote spells it: address number a in lower
\* case, and address 1 in its checksummed (mixed-case) spelling as well
LogAddresses ==
  {<<"0x", a, "lower">> : a \in 1..MaxAddr} \cup {<<"0x", 1, "upper">>}

\* the lists of log addresses of a block, in log order
RECURSIVE LogLists(_)
LogLists(n) ==
  IF n = 0 THEN {<<>>}
  ELSE LET shorter == LogLists(n - 1)
       IN shorter \cup {Append(l, a) : l \in {s \in shorter : Len(s) = n - 1},
                                       a \in LogAddresses}

\* contractLogCounts after the loop over the logs: a Map keeps its keys in
\* the order of their first set(), so the entries are in the order in
\* which the addresses first emit
RECURSIVE contractLogCounts(_)
contractLogCounts(addrs) ==
  IF addrs = <<>> THEN <<>>
  ELSE LET before == contractLogCounts(SubSeq(addrs, 1, Len(addrs) - 1))
           addr   == toLowerCase(addrs[Len(addrs)])
       IN IF \E x \in DOMAIN before : before[x].address = addr
            THEN [x \in DOMAIN before |->
                    IF before[x].address = addr
                      THEN [address |-> addr, count |-> before[x].count + 1]
                      ELSE before[x]]
            ELSE Append(before, [address |-> addr, count |-> 1])

\* entries.sort((a, b) => b[1] - a[1]): Array.prototype.sort is stable, so
\* entries of equal count keep the order they have in the Map
RECURSIVE sortByCount(_)
sortByCount(entries) ==
  IF entries = <<>> THEN <<>>
  ELSE LET sorted == sortByCount(SubSeq(entries, 1, Len(entries) - 1))
           e      == entries[Len(entries)]
           ahead  == Cardinality({x \in DOMAIN sorted : sorted[x].count >= e.count})
       IN SubSeq(sorted, 1, ahead) \o <<e>> \o SubSeq(sorted, ahead + 1, Len(sorted))

\* .slice(0, 5)
slice(s, from, to) == SubSeq(s, from + 1, IF to < Len(s) THEN to ELSE Len(s))

\* topContracts = [...contractLogCounts.entries()].sort(...).slice(0, 5).map(...)
topContracts(addrs) == slice(sortByCount(contractLogCounts(addrs)), 0, 5)

\* the same list of logs, last log first
Reversed(s) == [x \in DOMAIN s |-> s[Len(s) + 1 - x]]

\* the logs of a block arrive
LogsArrive ==
  /\ lastCall.op = "none"
  /\ \E addrs \in LogLists(MaxLogs) :
       lastCall' = [op |-> "logs", args |-> addrs, out |-> <<>>]
  /\ UNCHANGED <<chain, store, pc, locals, failures, pendingRewind, latest, retryOf,
                 fetchState, batch, cls, resolver, reorgBlock>>

\* computeBlockMetrics(txData, allLogs) applied to the logs, and to the same
\* logs in the opposite order
ComputeTopContracts ==
  /\ lastCall.op = "logs"
  /\ lastCall' = [op   |-> "computeBlockMetrics",
                  args |-> lastCall.args,
                  out  |-> [topContracts |-> topContracts(lastCall.args),
                            reordered    |-> topContracts(Reversed(lastCall.args))]]
  /\ UNCHANGED <<chain, store, pc, locals, failures, pendingRewind, latest, retryOf,
                 fetchState, batch, cls, resolver, reorgBlock>>

NextTopContracts == LogsArrive \/ ComputeTopContracts

SpecTopContracts == Init /\ [][NextTopContracts]_vars

\* the emitting addresses of a list of logs
Emitters(addrs) == {toLowerCase(addrs[x]) : x \in DOMAIN addrs}

\* the number of logs of an address in a list of logs
LogCount(addrs, addr) == Cardinality({x \in DOMAIN addrs : toLowerCase(addrs[x]) = addr})

(* C33: topContracts holds the at most 10 emitting addresses with the
   highest log counts: all of them when there are at most 10, each with its
   count, in descending order of count, and in an order that does not
   depend on the order of the logs. *)
C33_TopContracts ==
  lastCall.op = "computeBlockMetrics" =>
    LET top  == lastCall.out.topContracts
        addrs == lastCall.args
        n    == Cardinality(Emitters(addrs))
    IN /\ Len(top) = (IF n < 10 THEN n ELSE 10)
       /\ \A x \in DOMAIN top :
            /\ top[x].address \in Emitters(addrs)
            /\ top[x].count = LogCount(addrs, top[x].address)
       /\ \A x, y \in DOMAIN top : x < y => top[x].count >= top[y].count
       /\ \A a \in Emitters(addrs) :
            (\A x \in DOMAIN top : top[x].address # a) =>
              \A x \in DOMAIN top : top[x].count >= LogCount(addrs, a)
       /\ lastCall.out.reordered = top

(* ----------------------------- the log decoders ------------------------ *)

\* a 32-byte word of a log has WordBits bits, an address its AddrBits low
\* bits; data is a run of at most MaxWords words
WordBits == 8
AddrBits == 5
MaxWords == 5

TwoTo(n) == 2 ^ n

\* an entry of log.topics: null, a hex string without digits, or a word
NullTopic == [kind |-> "null", word |-> 0]
EmptyTopic == [kind |-> "0x", word |-> 0]
WordTopic(w) == [kind |-> "word", word |-> w]

\* the topics lists of a log: up to four entries
TopicValues == {NullTopic, EmptyTopic, WordTopic(TwoTo(WordBits) - 3)}

RECURSIVE TopicLists(_)
TopicLists(n) ==
  IF n = 0 THEN {<<>>}
  ELSE LET shorter == TopicLists(n - 1)
       IN shorter \cup {Append(l, t) : l \in {s \in shorter : Len(s) = n - 1},
                                       t \in TopicValues}

\* the words of log.data: the largest positive amount, the smallest
\* negative one, and minus one
DataWords == {TwoTo(WordBits - 1) - 1, TwoTo(WordBits - 1), TwoTo(WordBits) - 1}

RECURSIVE WordLists(_)
WordLists(n) ==
  IF n = 0 THEN {<<>>}
  ELSE LET shorter == WordLists(n - 1)
       IN shorter \cup {Append(l, w) : l \in {s \in shorter : Len(s) = n - 1},
                                       w \in DataWords}

\* log.data: whole words, followed or not by bytes that do not fill a word
LogData == [words : WordLists(MaxWords), partial : BOOLEAN]

\* what a function body comes to: a value returned, null returned, or an
\* exception raised
ReturnsNull == [kind |-> "null"]
Raises == [kind |-> "raised"]

\* topics[n]: the entry at index n (from 0), undefined past the end
TopicAt(topics, n) == IF n + 1 \in DOMAIN topics THEN topics[n + 1] ELSE NullTopic

\* !topics[n]: undefined and null are falsy, a non-empty string is not
Missing(topics, n) == TopicAt(topics, n).kind = "null"

\* '0x' + topic.slice(26): the last 20 bytes of the topic
SliceAddress(t) ==
  IF t.kind = "word" THEN <<"0x", t.word % TwoTo(AddrBits)>> ELSE <<"0x">>

\* an int type read as an unsigned number
decodeNumberUnsigned(type, w) == w

\* viem's decodeNumber: a 32-byte word read as a number of the declared
\* type; the int types are read in two's complement
decodeNumber(type, w) ==
  IF type \in {"int256", "int24"} /\ w >= TwoTo(WordBits - 1)
    THEN w - TwoTo(WordBits)
    ELSE w

\* decodeAbiParameters(params, data) for static number types: one word per
\* parameter; it throws when the data ends before the last parameter's word
decodeAbiParameters(params, data) ==
  IF Len(data.words) < Len(params) THEN Raises
  ELSE [kind   |-> "value",
        values |-> [x \in DOMAIN params |-> decodeNumber(params[x], data.words[x])]]

\* BigInt(topic): throws a SyntaxError on a hex string without digits
BigIntOf(t) == IF t.kind = "word" THEN [kind |-> "value", values |-> <<t.word>>] ELSE Raises

\* the exception leaves the decoder
catchRethrows(result) == result

\* try { ... } catch { return null; }
catchReturnsNull(result) == IF result.kind = "raised" THEN ReturnsNull ELSE result

\* decodeErc20Transfer(topics, data)
decodeErc20Transfer(topics, data) ==
  catchReturnsNull(
    IF Missing(topics, 1) \/ Missing(topics, 2) THEN ReturnsNull
    ELSE LET decoded == decodeAbiParameters(<<"uint256">>, data)
         IN IF decoded.kind = "raised" THEN Raises
            ELSE [kind |-> "value",
                  from |-> SliceAddress(TopicAt(topics, 1)),
                  to |-> SliceAddress(TopicAt(topics, 2)),
                  amount |-> decoded.values[1]])

\* decodeErc721Transfer(topics)
decodeErc721Transfer(topics) ==
  catchReturnsNull(
    IF Missing(topics, 1) \/ Missing(topics, 2) \/ Missing(topics, 3) THEN ReturnsNull
    ELSE LET tokenId == BigIntOf(TopicAt(topics, 3))
         IN IF tokenId.kind = "raised" THEN Raises
            ELSE [kind |-> "value",
                  from |-> SliceAddress(TopicAt(topics, 1)),
                  to |-> SliceAddress(TopicAt(topics, 2)),
                  tokenId |-> tokenId.values[1],
                  amount |-> 1,
                  standard |-> "ERC721"])

\* decodeErc1155TransferSingle(topics, data)
decodeErc1155TransferSingle(topics, data) ==
  catchReturnsNull(
    IF Missing(topics, 2) \/ Missing(topics, 3) THEN ReturnsNull
    ELSE LET decoded == decodeAbiParameters(<<"uint256", "uint256">>, data)
         IN IF decoded.kind = "raised" THEN Raises
            ELSE [kind |-> "value",
                  from |-> SliceAddress(TopicAt(topics, 2)),
                  to |-> SliceAddress(TopicAt(topics, 3)),
                  tokenId |-> decoded.values[1],
                  amount |-> decoded.values[2],
                  standard |-> "ERC1155"])

\* decodeSwapV2(topics, data)
decodeSwapV2(topics, data) ==
  catchReturnsNull(
    IF Missing(topics, 1) \/ Missing(topics, 2) THEN ReturnsNull
    ELSE LET decoded == decodeAbiParameters(<<"uint256", "uint256", "uint256", "uint256">>, data)
         IN IF decoded.kind = "raised" THEN Raises
            ELSE [kind |-> "value",
                  sender |-> SliceAddress(TopicAt(topics, 1)),
                  to |-> SliceAddress(TopicAt(topics, 2)),
                  amount0In |-> decoded.values[1],
                  amount1In |-> decoded.values[2],
                  amount0Out |-> decoded.values[3],
                  amount1Out |-> decoded.values[4]])

\* decodeSwapV3(topics, data)
decodeSwapV3(topics, data) ==
  catchReturnsNull(
    IF Missing(topics, 1) \/ Missing(topics, 2) THEN ReturnsNull
    ELSE LET decoded == decodeAbiParameters(
                          <<"int256", "int256", "uint160", "uint128", "int24">>, data)
         IN IF decoded.kind = "raised" THEN Raises
            ELSE [kind |-> "value",
                  sender |-> SliceAddress(TopicAt(topics, 1)),
                  recipient |-> SliceAddress(TopicAt(topics, 2)),
                  amount0 |-> decoded.values[1],
                  amount1 |-> decoded.values[2],
                  sqrtPriceX96 |-> decoded.values[3],
                  liquidity |-> decoded.values[4],
                  tick |-> decoded.values[5]])

\* the decoders by name
Decoders ==
  {"decodeErc20Transfer", "decodeErc721Transfer", "decodeErc1155TransferSingle",
   "decodeSwapV2", "decodeSwapV3"}

\* a log arrives: its topics and its data
LogArrives ==
  /\ lastCall.op = "none"
  /\ \E topics \in TopicLists(MaxTopics), data \in LogData :
       lastCall' = [op |-> "log", args |-> [topics |-> topics, data |-> data],
                    out |-> <<>>]
  /\ UNCHANGED <<chain, store, pc, locals, failures, pendingRewind, latest, retryOf,
                 fetchState, batch, cls, resolver, reorgBlock>>

\* decodeErc20Transfer applied to the log
DecodeErc20Transfer ==
  /\ lastCall.op = "log"
  /\ lastCall' = [lastCall EXCEPT !.op = "decodeErc20Transfer",
                    !.out = decodeErc20Transfer(lastCall.args.topics, lastCall.args.data)]
  /\ UNCHANGED <<chain, store, pc, locals, failures, pendingRewind, latest, retryOf,
                 fetchState, batch, cls, resolver, reorgBlock>>

\* decodeErc721Transfer applied to the log
DecodeErc721Transfer ==
  /\ lastCall.op = "log"
  /\ lastCall' = [lastCall EXCEPT !.op = "decodeErc721Transfer",
                    !.out = decodeErc721Transfer(lastCall.args.topics)]
  /\ UNCHANGED <<chain, store, pc, locals, failures, pendingRewind, latest, retryOf,
                 fetchState, batch, cls, resolver, reorgBlock>>

\* decodeErc1155TransferSingle applied to the log
DecodeErc1155TransferSingle ==
  /\ lastCall.op = "log"
  /\ lastCall' = [lastCall EXCEPT !.op = "decodeErc1155TransferSingle",
                    !.out = decodeErc1155TransferSingle(lastCall.args.topics,
                                                        lastCall.args.data)]
  /\ UNCHANGED <<chain, store, pc, locals, failures, pendingRewind, latest, retryOf,
                 fetchState, batch, cls, resolver, reorgBlock>>

\* decodeSwapV2 applied to the log
DecodeSwapV2 ==
  /\ lastCall.op = "log"
  /\ lastCall' = [lastCall EXCEPT !.op = "decodeSwapV2",
                    !.out = decodeSwapV2(lastCall.args.topics, lastCall.args.data)]
  /\ UNCHANGED <<chain, store, pc, locals, failures, pendingRewind, latest, retryOf,
                 fetchState, batch, cls, resolver, reorgBlock>>

\* decodeSwapV3 applied to the log
DecodeSwapV3 ==
  /\ lastCall.op = "log"
  /\ lastCall' = [lastCall EXCEPT !.op = "decodeSwapV3",
                    !.out = decodeSwapV3(lastCall.args.topics, lastCall.args.data)]
  /\ UNCHANGED <<chain, store, pc, locals, failures, pendingRewind, latest, retryOf,
                 fetchState, batch, cls, resolver, reorgBlock>>

NextDecode ==
  \/ LogArrives
  \/ DecodeErc20Transfer
  \/ DecodeErc721Transfer
  \/ DecodeErc1155TransferSingle
  \/ DecodeSwapV2
  \/ DecodeSwapV3

SpecDecode == Init /\ [][NextDecode]_vars

\* the indexed topics a decoder reads, and the number of words it decodes
RequiredTopics(name) ==
  CASE name = "decodeErc20Transfer" -> {1, 2}
    [] name = "decodeErc721Transfer" -> {1, 2, 3}
    [] name = "decodeErc1155TransferSingle" -> {2, 3}
    [] name = "decodeSwapV2" -> {1, 2}
    [] name = "decodeSwapV3" -> {1, 2}

FieldWords(name) ==
  CASE name = "decodeErc20Transfer" -> 1
    [] name = "decodeErc721Transfer" -> 0
    [] name = "decodeErc1155TransferSingle" -> 2
    [] name = "decodeSwapV2" -> 4
    [] name = "decodeSwapV3" -> 5

(* C31: no decoder raises, and each returns null when a topic it reads is
   missing from the log or the data has fewer words than the fields it
   decodes. *)
C31_DecodersNeverRaise ==
  lastCall.op \in Decoders =>
    /\ lastCall.out.kind \in {"null", "value"}
    /\ ((\E n \in RequiredTopics(lastCall.op) :
           n + 1 \notin DOMAIN lastCall.args.topics
           \/ lastCall.args.topics[n + 1] = NullTopic)
        \/ Len(lastCall.args.data.words) < FieldWords(lastCall.op))
         => lastCall.out.kind = "null"

\* a V3 swap with both indexed topics and a data one word short
C31_Witness ==
  /\ lastCall.op = "decodeSwapV3"
  /\ Len(lastCall.args.topics) = 3 /\ lastCall.args.topics[2].kind = "word"
  /\ lastCall.args.topics[3].kind = "word"
  /\ Len(lastCall.args.data.words) = 4 /\ lastCall.args.data.partial
  /\ lastCall.out.kind = "null"

(* C32: decodeSwapV3 reads amount0 and amount1 as two's-complement signed
   integers of the word's width: the amount is congruent to the word, it
   is negative exactly when the word's top bit is set, and no amount it
   returns is beyond 2^(width - 1) in absolute value. *)
C32_SignedAmounts ==
  (lastCall.op = "decodeSwapV3" /\ lastCall.out.kind = "value") =>
    \A x \in 1..2 :
      LET word   == lastCall.args.data.words[x]
          amount == IF x = 1 THEN lastCall.out.amount0 ELSE lastCall.out.amount1
      IN /\ (amount - word) % TwoTo(WordBits) = 0
         /\ (amount < 0) <=> (word >= TwoTo(WordBits - 1))
         /\ amount >= -TwoTo(WordBits - 1) /\ amount <= TwoTo(WordBits - 1)

\* a swap whose amount0 is the smallest negative amount and whose amount1
\* is the largest positive one
C32_Witness ==
  /\ lastCall.op = "decodeSwapV3" /\ lastCall.out.kind = "value"
  /\ lastCall.args.data.words[1] = TwoTo(WordBits - 1)
  /\ lastCall.out.amount0 = -TwoTo(WordBits - 1)
  /\ lastCall.args.data.words[2] = TwoTo(WordBits - 1) - 1
  /\ lastCall.out.amount1 = TwoTo(WordBits - 1) - 1

=============================================================================
